---- MODULE Spec2Model ----
(***************************************************************************)
(* Flappy clone (src/unnamed/part_000): session state machine, body        *)
(* integrator, obstacle pool, collision test, scoring, autopilot and       *)
(* particle burst, as a state machine driven by frames and input events.   *)
(*                                                                         *)
(* Units.  The source computes in floating point; every quantity here is   *)
(* an integer multiple of a unit in which the source's constants are       *)
(* exact:                                                                  *)
(*   lengths and velocities   1/50 logical pixel  (PX = 50 units = 1 px)   *)
(*   bird.angle               1/50000 radian                               *)
(*   groundOffset             1/500 logical pixel                          *)
(*   times                    1 millisecond                                *)
(* Pure rendering state (clouds, particle positions and colours, the fps   *)
(* meter, audio, DOM overlays) has no effect on the state modelled here    *)
(* and is left out.                                                        *)
(***************************************************************************)
EXTENDS Integers, Sequences, FiniteSets, TLC

\* ------------------------------------------------------------- constants
PX == 50

GRAVITY == 4
FLAP_VELOCITY == -175
PIPE_SPAWN_INTERVAL == 1600
GROUND_HEIGHT == 5600

LOGICAL_WIDTH == 20000
LOGICAL_HEIGHT == 30000
BIRD_X == 5000
PIPE_WIDTH == 4000
PIPE_MIN_Y == 3000

EASY_MODE == [pipeGap |-> 9000, pipeVelocity |-> 110]
NORMAL_MODE == [pipeGap |-> 7500, pipeVelocity |-> 125]

State == [Menu |-> "menu", Playing |-> "playing", GameOver |-> "gameover", Paused |-> "paused"]

BIRD_RADIUS == 600
BIRD_START_Y == (LOGICAL_HEIGHT * 4) \div 10
FLAP_ANGLE == -20000

EXPLOSION_COUNT == 28
PARTICLE_LIFE_MIN == 600
PARTICLE_LIFE_SPAN == 400

MAX_POOL == 8
MAX_DT == 32
WING_PERIOD == 100

AI_COOLDOWN == 160
AI_CEIL_MARGIN == 4000
AI_HYSTERESIS == 500
AI_LOOKAHEAD == 10
AI_RISING_VY == -25
AI_FALLBACK_Y == (LOGICAL_HEIGHT * 6) \div 10

\* parseInt() of a text with no leading digits is NaN; it is the one value of
\* highScore that is no integer and is written as an integer no score reaches.
\* Every comparison with it is false (jsGT, jsLT, jsGE).
NaN == -1000000

\* ---------------------------------------------------------------- bounds
\* Math.random() is drawn as r / RAND_DEN with r in RandSamples.
RAND_DEN == 1000
RandSamples == {0, 999}
\* Seeds of the per-particle lifetimes drawn by spawnExplosion.
LifeSeeds == {0, 173}
\* Raw frame times (ms) the loop driver delivers.
FrameTimes == {32, 48}
\* Frame times (ms) outside the regular ones: now - lastTime is negative when a
\* callback's timestamp precedes the performance.now() read at load, and is
\* arbitrarily large after the tab was in the background.
AnomalousTimes == {-16, 100000}
\* Frame time (ms) of a display refreshing at 60 Hz.
ShortFrameTimes == {16}
\* groundOffset grows without bound in the source; it is kept up to this value.
MaxGroundOffset == 7500
\* Playing frames are delivered while the score is below this value.
MaxScore == 3
\* Input events that change the course of a flight (flap, pointer and pause while
\* Playing, and every toggle of a checkbox) accepted in one run.
MaxCommands == 1
\* Reaction test: rounds started in one run, and the last reading of
\* performance.now() (in frames of the display) at which the clock still advances.
MaxRounds == 3
MaxNow == 6
\* Arguments of the probed calls of circleRectCollision: centre coordinates in
\* -MaxCoord..MaxCoord, radius in 0..MaxRadius, rectangle sides in 0..MaxSide,
\* rectangle origin in RectOrigins.
MaxCoord == 8
MaxRadius == 5
MaxSide == 3
RectOrigins == {-1, 1}
\* Numbers of tap-and-frame pairs a rapidly tapping player has made when a run of
\* SpecClimb begins.
ClimbTaps == {24, 36}

Max(a, b) == IF a >= b THEN a ELSE b
Min(a, b) == IF a <= b THEN a ELSE b
Range(s) == {s[i] : i \in 1..Len(s)}

jsGT(a, b) == a # NaN /\ b # NaN /\ a > b
jsLT(a, b) == a # NaN /\ b # NaN /\ a < b
jsGE(a, b) == a # NaN /\ b # NaN /\ a >= b

\* localStorage holds texts; a text is a sequence of one-character strings.
DigitChars == <<"0", "1", "2", "3", "4", "5", "6", "7", "8", "9">>
IsDigit(c) == \E d \in 1..10 : DigitChars[d] = c
DigitValue(c) == (CHOOSE d \in 1..10 : DigitChars[d] = c) - 1

\* String(n)
RECURSIVE DigitsOf(_)
DigitsOf(n) == IF n < 10 THEN <<DigitChars[n + 1]>>
               ELSE Append(DigitsOf(n \div 10), DigitChars[(n % 10) + 1])
String(n) == IF n = NaN THEN <<"N", "a", "N">>
             ELSE IF n < 0 THEN <<"-">> \o DigitsOf(-n)
             ELSE DigitsOf(n)

\* parseInt(text, 10): optional sign, then the longest run of leading digits;
\* NaN when that run is empty.
RECURSIVE LeadingDigits(_)
LeadingDigits(t) == IF t # <<>> /\ IsDigit(Head(t)) THEN 1 + LeadingDigits(Tail(t)) ELSE 0
RECURSIVE DigitsValue(_, _)
DigitsValue(t, n) == IF n = 0 THEN 0
                     ELSE DigitsValue(t, n - 1) * 10 + DigitValue(t[n])
parseInt(t) ==
    LET signed == t # <<>> /\ Head(t) \in {"-", "+"}
        body == IF signed THEN Tail(t) ELSE t
        n == LeadingDigits(body)
        v == DigitsValue(body, n)
    IN IF n = 0 THEN NaN
       ELSE IF signed /\ Head(t) = "-" THEN -v ELSE v

\* localStorage.getItem('flappy_highscore') || '0'
NoItem == [present |-> FALSE, text |-> <<>>]
Item(t) == [present |-> TRUE, text |-> t]
getItemOrZero(store) ==
    IF store.item.present /\ store.item.text # <<>> THEN store.item.text ELSE <<"0">>

\* Values of localStorage['flappy_highscore'] found at page load: none, a
\* number text, a text that is no number, a number followed by other characters.
StoredItems == {NoItem, Item(<<"2">>), Item(<<"a", "b", "c">>), Item(<<"2", "x">>)}

\* let highScore = parseInt(localStorage.getItem('flappy_highscore') || '0', 10)
readHighScore(store) == parseInt(getItemOrZero(store))

\* A call of a pure function made outside a session: its arguments and, once
\* the call has returned (done), its result.
NoProbe == [done |-> FALSE]

\* ------------------------------------------- reaction test (part_001)
\* The page's state after loadBest() and resetToIdle() have run at load: the
\* closure variables state, timeoutId (0 is null), startTime and best (NoBest is
\* null), the text of messageEl, and of the browser: timers (the ids of the
\* timeouts that are pending), the id the next setTimeout returns, the number of
\* animation-frame callbacks queued of the outer and of the inner kind, and the
\* value performance.now() returns.  fresh tells whether startTime has been
\* assigned since state last became 'go'; elapsed is the value last shown and
\* passed to saveBest (NoBest before the first).
NoBest == -1
ReactionBoot ==
    [state |-> "idle", timeoutId |-> 0, startTime |-> 0, best |-> NoBest,
     message |-> "idle", timers |-> {}, nextTimer |-> 1,
     rafOuter |-> 0, rafInner |-> 0, now |-> 1,
     fresh |-> FALSE, elapsed |-> NoBest]

saveBest(q, ms) ==
    IF q.best = NoBest \/ ms < q.best THEN [q EXCEPT !.best = ms] ELSE q

clearTimerKeepsTimeout(q) ==
    IF q.timeoutId # 0 THEN [q EXCEPT !.timeoutId = 0] ELSE q

clearTimer(q) ==
    IF q.timeoutId # 0
    THEN [q EXCEPT !.timers = @ \ {q.timeoutId}, !.timeoutId = 0]
    ELSE q

resetToIdle(q) == [clearTimer(q) EXCEPT !.state = "idle", !.message = "idle"]

\* timeoutId = setTimeout(callback, delay)
startWaiting(q) ==
    LET c == clearTimer(q)
    IN [c EXCEPT !.state = "waiting", !.message = "waiting",
                 !.timers = @ \cup {c.nextTimer}, !.timeoutId = c.nextTimer,
                 !.nextTimer = @ + 1]

\* the callback passed to setTimeout
timeoutCallback(q) ==
    [q EXCEPT !.state = "go", !.message = "go", !.rafOuter = @ + 1,
              !.timeoutId = 0, !.fresh = FALSE]

handleScreenClick(q) ==
    IF q.state = "idle" THEN startWaiting(q)
    ELSE IF q.state = "waiting"
         THEN [clearTimer(q) EXCEPT !.state = "idle", !.message = "early"]
    ELSE IF q.state = "go"
         THEN [saveBest(q, q.now - q.startTime) EXCEPT
                  !.elapsed = q.now - q.startTime, !.message = "result", !.state = "idle"]
    ELSE q

onKey(q, code) ==
    IF code = "Space"
    THEN IF q.state = "idle" THEN startWaiting(q)
         ELSE IF q.state = "go" THEN handleScreenClick(q)
         ELSE q
    ELSE IF code = "Enter" /\ q.state = "go" THEN handleScreenClick(q)
    ELSE q

startBtnClick(q) == IF q.state = "idle" THEN startWaiting(q) ELSE q

\* One display frame: every queued animation-frame callback runs; an outer one
\* queues an inner one for the next frame, an inner one assigns startTime.
animationFrame(q) ==
    [q EXCEPT !.rafOuter = 0, !.rafInner = q.rafOuter,
              !.startTime = IF q.rafInner > 0 THEN q.now ELSE @,
              !.fresh = IF q.rafInner > 0 THEN q.state = "go" ELSE @]

\* ------------------------------------------ Breakout (Games/Breakout/script.js)
\* Units.  Lengths and per-frame velocities are in 1/1000 pixel, frame times in
\* 1/100 ms, dtScale and the sines and cosines in 1/100 and 1/1000.  Angles are
\* whole multiples of 15 degrees: the launch angle is drawn from such samples
\* and the bounce angle off the paddle is rounded to the nearest one.
MPX == 1000

CONFIG ==
    [canvasWidth |-> 480 * MPX, canvasHeight |-> 640 * MPX,
     paddleWidth |-> 80 * MPX, paddleHeight |-> 12 * MPX, paddleSpeed |-> 6 * MPX,
     ballRadius |-> 8 * MPX, ballSpeed |-> 7 * MPX, ballSpeedMax |-> 13 * MPX,
     brick |-> [rows |-> 5, cols |-> 8, width |-> 50 * MPX, height |-> 20 * MPX,
                padding |-> 8 * MPX, offsetTop |-> 60 * MPX, offsetLeft |-> 20 * MPX],
     startingLives |-> 3]

\* update(dtMs): dt = Math.min(dtMs ?? 16.67, 32)
UPDATE_MAX_DT == 3200
\* Frame intervals of a 60 Hz and of a 30 Hz display.
DisplayIntervals == {1667, 3333}
\* randRange(-Math.PI / 4, Math.PI / 4), in multiples of 15 degrees
LaunchAngles == {-3, 0}
\* input.mouseX after a mousemove on the canvas; NoMouse is null
NoMouse == -1
MouseXs == {60 * MPX, 400 * MPX}
\* Arrow-key and mouse-move events delivered in one run.
MaxInputs == 1
\* Bricks broken in one game before the display stops delivering frames.
MaxBroken == 4

Abs(a) == IF a >= 0 THEN a ELSE -a
clamp(value, min, max) == Max(min, Min(max, value))

\* v * num / den, rounded toward zero
MulDiv(v, num, den) ==
    IF v >= 0 THEN (v * num) \div den ELSE -(((-v) * num) \div den)

RECURSIVE SqrtBetween(_, _, _)
SqrtBetween(n, lo, hi) ==
    IF hi - lo <= 1 THEN lo
    ELSE LET mid == (lo + hi) \div 2
         IN IF mid * mid <= n THEN SqrtBetween(n, mid, hi) ELSE SqrtBetween(n, lo, mid)

\* Math.hypot(a, b)
hypot(a, b) == SqrtBetween(a * a + b * b, 0, 46340)

\* Math.cos and Math.sin of k * 15 degrees, k in -4..4, in 1/1000
CosTable == <<1000, 966, 866, 707, 500>>
SinTable == <<0, 259, 500, 707, 866>>
cos15(k) == CosTable[Abs(k) + 1]
sin15(k) == IF k >= 0 THEN SinTable[k + 1] ELSE -SinTable[1 - k]

\* bricks[r][c] of resetBricks(); rows and columns are numbered from 1 here
brickX(c) == CONFIG.brick.offsetLeft + (c - 1) * (CONFIG.brick.width + CONFIG.brick.padding)
brickY(r) == CONFIG.brick.offsetTop + (r - 1) * (CONFIG.brick.height + CONFIG.brick.padding)
levelHits(level) == 1 + (level - 1) \div 3

resetBricks(s) ==
    [s EXCEPT !.bricks = [r \in 1..CONFIG.brick.rows |->
                            [c \in 1..CONFIG.brick.cols |->
                                [alive |-> TRUE, hits |-> levelHits(s.level)]]]]

PADDLE_Y == CONFIG.canvasHeight - 40 * MPX

centerBallOnPaddle(s) ==
    [s EXCEPT !.ball.x = s.paddle.x + CONFIG.paddleWidth \div 2,
              !.ball.y = PADDLE_Y - CONFIG.ballRadius - 1 * MPX]

resetBallOnPaddle(s) ==
    centerBallOnPaddle([s EXCEPT !.ball.dx = 0, !.ball.dy = 0, !.ball.onPaddle = TRUE])

restart(s) ==
    resetBallOnPaddle(resetBricks(
        [s EXCEPT !.score = 0, !.lives = CONFIG.startingLives, !.won = FALSE,
                  !.lost = FALSE, !.running = TRUE]))

\* The state object literal, then boot(): resetBricks(); resetBallOnPaddle().
\* ballSpeed is CONFIG.ballSpeed, which update() raises with the level; input
\* is the input object; interval is the display's frame interval and inputs
\* counts the arrow-key and mouse-move events delivered.
BreakoutBoot(interval) ==
    resetBallOnPaddle(resetBricks(
        [paddle |-> [x |-> CONFIG.canvasWidth \div 2 - CONFIG.paddleWidth \div 2],
         ball |-> [x |-> CONFIG.canvasWidth \div 2, y |-> CONFIG.canvasHeight \div 2,
                   dx |-> 0, dy |-> 0, onPaddle |-> TRUE],
         bricks |-> <<>>,
         score |-> 0, lives |-> CONFIG.startingLives, highScore |-> 0,
         running |-> TRUE, won |-> FALSE, lost |-> FALSE, paused |-> FALSE,
         level |-> 1, ballSpeed |-> CONFIG.ballSpeed,
         input |-> [left |-> FALSE, right |-> FALSE, mouseX |-> NoMouse],
         interval |-> interval, inputs |-> 0]))

\* launchBall() with randRange() returning the angle 15 * k degrees
launchBall(s, k) ==
    IF ~s.ball.onPaddle \/ s.lost \/ s.won THEN s
    ELSE LET dx0 == MulDiv(cos15(k), s.ballSpeed, 1000)
             dy0 == -MulDiv(cos15(k), s.ballSpeed, 1000) - s.ballSpeed
             len == hypot(dx0, dy0)
         IN [s EXCEPT !.ball.dx = IF len > 0 THEN MulDiv(dx0, s.ballSpeed, len) ELSE dx0,
                      !.ball.dy = IF len > 0 THEN MulDiv(dy0, s.ballSpeed, len) ELSE dy0,
                      !.ball.onPaddle = FALSE]

\* (dx * dx + dy * dy) <= radius * radius, the squares taken only of distances
\* within the radius so that they stay in range
circleIntersectsRect(cx, cy, radius, rx, ry, rw, rh) ==
    LET dx == cx - clamp(cx, rx, rx + rw)
        dy == cy - clamp(cy, ry, ry + rh)
    IN /\ Abs(dx) <= radius
       /\ Abs(dy) <= radius
       /\ dx * dx + dy * dy <= radius * radius

Min4(a, b, c, d) == Min(Min(a, b), Min(c, d))

\* rect is [x, y, width, height]; fromLeft .. fromBottom are not used by the source
reflectBallFromRect(ball, rect) ==
    LET overlapLeft == Abs((ball.x + CONFIG.ballRadius) - rect.x)
        overlapRight == Abs((rect.x + rect.width) - (ball.x - CONFIG.ballRadius))
        overlapTop == Abs((ball.y + CONFIG.ballRadius) - rect.y)
        overlapBottom == Abs((rect.y + rect.height) - (ball.y - CONFIG.ballRadius))
        minOverlap == Min4(overlapLeft, overlapRight, overlapTop, overlapBottom)
        flippedX == minOverlap = overlapLeft \/ minOverlap = overlapRight
        flippedY == minOverlap = overlapTop \/ minOverlap = overlapBottom
    IN [ball EXCEPT !.dx = IF flippedX THEN -@ ELSE @,
                    !.dy = IF flippedY \/ ~flippedX THEN -@ ELSE @]

\* hitPos in 1/1000, the angle rounded to a multiple of 15 degrees
reflectFromPaddle(ball, paddle) ==
    LET half == CONFIG.paddleWidth \div 2
        hitPos == MulDiv(ball.x - (paddle.x + half), 1000, half)
        clamped == clamp(hitPos, -1000, 1000)
        k == MulDiv(2 * clamped * 4 + (IF clamped >= 0 THEN 1000 ELSE -1000), 1, 2000)
        speed == Min(CONFIG.ballSpeedMax, MulDiv(hypot(ball.dx, ball.dy), 103, 100))
    IN [ball EXCEPT !.dx = MulDiv(speed, sin15(k), 1000),
                    !.dy = -Abs(MulDiv(speed, cos15(k), 1000))]

\* update(): paddle movement from keyboard and mouse, constrained to the canvas
movePaddle(s, dtScale) ==
    LET byKeys == IF s.input.left /\ ~s.input.right
                  THEN s.paddle.x - MulDiv(CONFIG.paddleSpeed, dtScale, 100)
                  ELSE IF s.input.right /\ ~s.input.left
                  THEN s.paddle.x + MulDiv(CONFIG.paddleSpeed, dtScale, 100)
                  ELSE s.paddle.x
        byMouse == IF s.input.mouseX # NoMouse
                   THEN s.input.mouseX - CONFIG.paddleWidth \div 2
                   ELSE byKeys
    IN [s EXCEPT !.paddle.x = clamp(byMouse, 0, CONFIG.canvasWidth - CONFIG.paddleWidth)]

\* update(): stick the ball to the paddle, or move it
moveBall(s, dtScale) ==
    IF s.ball.onPaddle THEN centerBallOnPaddle(s)
    ELSE [s EXCEPT !.ball.x = @ + MulDiv(s.ball.dx, dtScale, 100),
                   !.ball.y = @ + MulDiv(s.ball.dy, dtScale, 100)]

\* update(): collisions with the left, right and top walls
hitWalls(s) ==
    IF s.ball.onPaddle THEN s
    ELSE LET R == CONFIG.ballRadius
             b1 == IF s.ball.x - R <= 0
                   THEN [s.ball EXCEPT !.x = R, !.dx = Abs(@)]
                   ELSE IF s.ball.x + R >= CONFIG.canvasWidth
                   THEN [s.ball EXCEPT !.x = CONFIG.canvasWidth - R, !.dx = -Abs(@)]
                   ELSE s.ball
             b2 == IF b1.y - R <= 0 THEN [b1 EXCEPT !.y = R, !.dy = Abs(@)] ELSE b1
         IN [s EXCEPT !.ball = b2]

\* update(): collision with the paddle
hitPaddle(s) ==
    IF /\ ~s.ball.onPaddle
       /\ circleIntersectsRect(s.ball.x, s.ball.y, CONFIG.ballRadius,
                               s.paddle.x, PADDLE_Y, CONFIG.paddleWidth, CONFIG.paddleHeight)
       /\ s.ball.dy > 0
    THEN [s EXCEPT !.ball = reflectFromPaddle(
                       [s.ball EXCEPT !.y = PADDLE_Y - CONFIG.ballRadius - MPX \div 10],
                       s.paddle)]
    ELSE s

\* The bricks the ball touches, and the one the row-by-row scan meets first.
TouchedBricks(s) ==
    {rc \in (1..CONFIG.brick.rows) \X (1..CONFIG.brick.cols) :
        /\ s.bricks[rc[1]][rc[2]].alive
        /\ circleIntersectsRect(s.ball.x, s.ball.y, CONFIG.ballRadius,
                                brickX(rc[2]), brickY(rc[1]),
                                CONFIG.brick.width, CONFIG.brick.height)}
FirstTouched(s) ==
    CHOOSE rc \in TouchedBricks(s) :
        \A o \in TouchedBricks(s) : rc[1] < o[1] \/ (rc[1] = o[1] /\ rc[2] <= o[2])

\* update(): collision with one brick per frame
hitBricks(s) ==
    IF s.ball.onPaddle \/ TouchedBricks(s) = {} THEN s
    ELSE LET rc == FirstTouched(s)
             brick == s.bricks[rc[1]][rc[2]]
             rect == [x |-> brickX(rc[2]), y |-> brickY(rc[1]),
                      width |-> CONFIG.brick.width, height |-> CONFIG.brick.height]
             left == brick.hits - 1
         IN [s EXCEPT !.ball = reflectBallFromRect(s.ball, rect),
                      !.bricks[rc[1]][rc[2]] = [alive |-> left > 0, hits |-> left],
                      !.score = IF left <= 0 THEN @ + 1 ELSE @]

\* update() that puts the ball back without taking a life
loseLifeKeepsLives(s) ==
    IF s.ball.y - CONFIG.ballRadius > CONFIG.canvasHeight
    THEN resetBallOnPaddle(s)
    ELSE s

\* update(): lose a life if the ball is below the bottom
loseLife(s) ==
    IF s.ball.y - CONFIG.ballRadius > CONFIG.canvasHeight
    THEN resetBallOnPaddle(
             [s EXCEPT !.lives = @ - 1,
                       !.lost = IF s.lives - 1 <= 0 THEN TRUE ELSE @,
                       !.running = IF s.lives - 1 <= 0 THEN FALSE ELSE @])
    ELSE s

allCleared(s) ==
    \A r \in 1..CONFIG.brick.rows : \A c \in 1..CONFIG.brick.cols : ~s.bricks[r][c].alive

\* update(): all bricks cleared: the next level
nextLevel(s) ==
    IF allCleared(s) /\ ~s.won
    THEN resetBallOnPaddle(resetBricks(
             [s EXCEPT !.level = @ + 1,
                       !.ballSpeed = Min(CONFIG.ballSpeedMax, MulDiv(@, 106, 100))]))
    ELSE s

\* update(): high score
raiseHighScore(s) ==
    IF s.score > s.highScore THEN [s EXCEPT !.highScore = s.score] ELSE s

breakoutUpdate(s, dtMs) ==
    IF ~s.running \/ s.paused THEN s
    ELSE LET dt == Min(dtMs, UPDATE_MAX_DT)
             dtScale == (dt * 60) \div 1000
         IN raiseHighScore(nextLevel(loseLife(hitBricks(hitPaddle(hitWalls(
                moveBall(movePaddle(s, dtScale), dtScale)))))))

\* The Breakout page as loaded on a 60 Hz display.
BreakoutIdle == BreakoutBoot(1667)

VARIABLES
    gameState, spawnTimer, score, highScore,
    bird, particles, pipePool, activePipes,
    PIPE_GAP, PIPE_VELOCITY, groundOffset,
    aiEnabled, aiElapsed,
    localStorage, rafPending,
    lastEvent, cmds,
    probe,
    reaction,
    breakout

\* The session data every subsystem reads and writes (source: top-level lets).
world == [gameState |-> gameState, spawnTimer |-> spawnTimer, score |-> score,
          highScore |-> highScore, bird |-> bird, particles |-> particles,
          pipePool |-> pipePool, activePipes |-> activePipes,
          groundOffset |-> groundOffset, aiElapsed |-> aiElapsed,
          localStorage |-> localStorage, rafPending |-> rafPending]

coreVars == <<gameState, spawnTimer, score, highScore, bird, particles, pipePool,
              activePipes, groundOffset, aiElapsed, localStorage, rafPending>>
flappyVars == <<coreVars, PIPE_GAP, PIPE_VELOCITY, aiEnabled, lastEvent, cmds>>
vars == <<flappyVars, probe, reaction, breakout>>

\* ------------------------------------------------------------ particles
ParticleLife(seed, i) == PARTICLE_LIFE_MIN + ((seed + 137 * i) % PARTICLE_LIFE_SPAN)

spawnExplosion(w, seed) ==
    [w EXCEPT !.particles = @ \o [i \in 1..EXPLOSION_COUNT |->
                                    [life |-> ParticleLife(seed, i), age |-> 0]]]

\* ----------------------------------------------------------------- pool
createPipePair == [x |-> LOGICAL_WIDTH + PIPE_WIDTH, gapY |-> 260 * PX,
                   scored |-> FALSE, active |-> FALSE]

\* p.active = false.  Every read of x, gapY and scored in the source is guarded
\* by p.active, and spawnPipePair writes all three before it sets active, so the
\* fields of an inactive pair are dead values: the model keeps the constructor's
\* values in their place (two states that differ only in dead fields are one).
deactivate(p) == [createPipePair EXCEPT !.active = FALSE]

acquirePipePairFirst(pool) == 1

acquirePipePairLast(pool) ==
    IF \E i \in 1..MAX_POOL : ~pool[i].active
    THEN CHOOSE i \in 1..MAX_POOL :
            ~pool[i].active /\ \A j \in 1..(i - 1) : pool[j].active
    ELSE MAX_POOL

acquirePipePair(pool) ==
    IF \E i \in 1..MAX_POOL : ~pool[i].active
    THEN CHOOSE i \in 1..MAX_POOL :
            ~pool[i].active /\ \A j \in 1..(i - 1) : pool[j].active
    ELSE 1

minCenter(gap) == Max(PIPE_MIN_Y + gap \div 2, 80 * PX)
maxCenter(gap) == LOGICAL_HEIGHT - GROUND_HEIGHT - PIPE_MIN_Y - gap \div 2

\* Math.floor(minCenter + Math.random() * (maxCenter - minCenter)), in whole pixels
randomGapY(gap, r) ==
    ((minCenter(gap) + (r * (maxCenter(gap) - minCenter(gap))) \div RAND_DEN) \div PX) * PX

pushActiveAlways(active, i) == Append(active, i)

\* if (!activePipes.includes(pair)) activePipes.push(pair)
pushActive(active, i) == IF i \in Range(active) THEN active ELSE Append(active, i)

spawnPipePair(w, r) ==
    LET i == acquirePipePair(w.pipePool)
    IN [w EXCEPT !.pipePool[i] = [x |-> LOGICAL_WIDTH + PIPE_WIDTH,
                                  gapY |-> randomGapY(PIPE_GAP, r),
                                  scored |-> FALSE, active |-> TRUE],
                 !.activePipes = pushActive(@, i)]

\* ------------------------------------------------------------ game flow
resetWorldKeepsParticles(w) ==
    [w EXCEPT !.score = 0, !.spawnTimer = 0, !.groundOffset = 0,
              !.pipePool = [i \in 1..MAX_POOL |-> deactivate(w.pipePool[i])],
              !.activePipes = <<>>,
              !.bird = [y |-> BIRD_START_Y, vy |-> 0, angle |-> 0, alive |-> TRUE,
                        wingPhase |-> 0, wingTimer |-> 0]]

resetWorld(w) ==
    [w EXCEPT !.score = 0, !.spawnTimer = 0, !.groundOffset = 0,
              !.pipePool = [i \in 1..MAX_POOL |-> deactivate(w.pipePool[i])],
              !.activePipes = <<>>,
              !.bird = [y |-> BIRD_START_Y, vy |-> 0, angle |-> 0, alive |-> TRUE,
                        wingPhase |-> 0, wingTimer |-> 0],
              !.particles = <<>>]

startGame(w) == [resetWorld(w) EXCEPT !.gameState = State.Playing]

\* localStorage.setItem('flappy_highscore', String(highScore)).  When the store
\* refuses the write, setItem throws: nothing in endGame, update or loop catches
\* it, so the rest of loop(now) -- draw() and requestAnimationFrame(loop) -- is
\* not executed and no frame callback is pending any more.
setItem(w, t) ==
    IF w.localStorage.writable
    THEN [w EXCEPT !.localStorage.item = Item(t)]
    ELSE [w EXCEPT !.rafPending = FALSE]

endGame(w, seed) ==
    LET e == spawnExplosion([w EXCEPT !.gameState = State.GameOver], seed)
    IN IF jsGT(w.score, w.highScore)
       THEN setItem([e EXCEPT !.highScore = w.score], String(w.score))
       ELSE e

restartGame(w) == [resetWorld(w) EXCEPT !.gameState = State.Playing]

\* ---------------------------------------------------------------- input
flapBird(b) == [b EXCEPT !.vy = FLAP_VELOCITY, !.angle = FLAP_ANGLE]

handleFlapRestarts(w) ==
    IF w.gameState = State.Menu THEN startGame(w)
    ELSE IF w.gameState = State.GameOver THEN restartGame(w)
    ELSE IF w.gameState = State.Playing THEN [w EXCEPT !.bird = flapBird(@)]
    ELSE w

handleFlapUngated(w) ==
    IF w.gameState = State.Menu THEN startGame(w)
    ELSE IF w.gameState = State.GameOver THEN w
    ELSE [w EXCEPT !.bird = flapBird(@)]

handleFlap(w) ==
    IF w.gameState = State.Menu THEN startGame(w)
    ELSE IF w.gameState = State.GameOver THEN w
    ELSE IF w.gameState = State.Playing THEN [w EXCEPT !.bird = flapBird(@)]
    ELSE w

togglePauseUngated(w) ==
    IF w.gameState = State.Paused THEN [w EXCEPT !.gameState = State.Playing]
    ELSE [w EXCEPT !.gameState = State.Paused]

togglePause(w) ==
    IF w.gameState = State.Playing THEN [w EXCEPT !.gameState = State.Paused]
    ELSE IF w.gameState = State.Paused THEN [w EXCEPT !.gameState = State.Playing]
    ELSE w

pointerDown(w) == IF w.gameState # State.GameOver THEN handleFlap(w) ELSE w

\* ------------------------------------------------------------ collision
circleRectCollisionStrict(cx, cy, cr, rx, ry, rw, rh) ==
    LET closestX == Max(rx, Min(cx, rx + rw))
        closestY == Max(ry, Min(cy, ry + rh))
        dx == cx - closestX
        dy == cy - closestY
    IN (dx * dx + dy * dy) < (cr * cr)

circleRectCollision(cx, cy, cr, rx, ry, rw, rh) ==
    LET closestX == Max(rx, Min(cx, rx + rw))
        closestY == Max(ry, Min(cy, ry + rh))
        dx == cx - closestX
        dy == cy - closestY
    IN (dx * dx + dy * dy) <= (cr * cr)

hitsPairBelowOnly(p, by) ==
    circleRectCollision(BIRD_X, by, BIRD_RADIUS, p.x, p.gapY + PIPE_GAP \div 2, PIPE_WIDTH,
                        LOGICAL_HEIGHT - GROUND_HEIGHT - (p.gapY + PIPE_GAP \div 2))

hitsPair(p, by) ==
    \/ circleRectCollision(BIRD_X, by, BIRD_RADIUS, p.x, 0, PIPE_WIDTH, p.gapY - PIPE_GAP \div 2)
    \/ circleRectCollision(BIRD_X, by, BIRD_RADIUS, p.x, p.gapY + PIPE_GAP \div 2, PIPE_WIDTH,
                           LOGICAL_HEIGHT - GROUND_HEIGHT - (p.gapY + PIPE_GAP \div 2))

\* ------------------------------------------------------------ autopilot
aiNext(w) ==
    LET cand == {k \in 1..Len(w.activePipes) :
                    /\ w.pipePool[w.activePipes[k]].active
                    /\ w.pipePool[w.activePipes[k]].x + PIPE_WIDTH > BIRD_X - 5 * PX}
    IN IF cand = {} THEN 0
       ELSE w.activePipes[CHOOSE k \in cand : \A j \in cand : k <= j]

aiTargetY(w) == IF aiNext(w) # 0 THEN w.pipePool[aiNext(w)].gapY ELSE AI_FALLBACK_Y

aiProjectedY(b) == b.y + b.vy * AI_LOOKAHEAD + (GRAVITY * AI_LOOKAHEAD * AI_LOOKAHEAD) \div 2

aiThinkAndMaybeFlapInverted(w) ==
    IF w.aiElapsed < AI_COOLDOWN THEN w
    ELSE IF w.bird.y < AI_CEIL_MARGIN THEN w
    ELSE IF ~(w.bird.vy < AI_RISING_VY) /\ aiProjectedY(w.bird) < aiTargetY(w) + AI_HYSTERESIS
         THEN [w EXCEPT !.bird = flapBird(@), !.aiElapsed = 0]
         ELSE w

aiThinkAndMaybeFlapWhileRising(w) ==
    IF w.aiElapsed < AI_COOLDOWN THEN w
    ELSE IF w.bird.y < AI_CEIL_MARGIN THEN w
    ELSE IF aiProjectedY(w.bird) > aiTargetY(w) + AI_HYSTERESIS
         THEN [w EXCEPT !.bird = flapBird(@), !.aiElapsed = 0]
         ELSE w

aiThinkAndMaybeFlap(w) ==
    IF w.aiElapsed < AI_COOLDOWN THEN w
    ELSE IF w.bird.y < AI_CEIL_MARGIN THEN w
    ELSE IF ~(w.bird.vy < AI_RISING_VY) /\ aiProjectedY(w.bird) > aiTargetY(w) + AI_HYSTERESIS
         THEN [w EXCEPT !.bird = flapBird(@), !.aiElapsed = 0]
         ELSE w

aiAssistAlways(w) == aiThinkAndMaybeFlap(w)

\* if (aiEnabled) aiThinkAndMaybeFlap()
aiAssist(w) == IF aiEnabled THEN aiThinkAndMaybeFlap(w) ELSE w

\* --------------------------------------------------------------- update
scrollBackground(w, dt) ==
    [w EXCEPT !.groundOffset = Min(@ + (PIPE_VELOCITY * dt * 6) \div 10, MaxGroundOffset)]

updateParticlesKeepsExpired(w, dt) ==
    [w EXCEPT !.particles = [i \in 1..Len(w.particles) |-> [w.particles[i] EXCEPT !.age = @ + dt]]]

updateParticles(w, dt) ==
    LET aged == [i \in 1..Len(w.particles) |-> [w.particles[i] EXCEPT !.age = @ + dt]]
    IN [w EXCEPT !.particles = SelectSeq(aged, LAMBDA p : ~(p.age >= p.life))]

\* bird.angle += (clamp(vy / 10, -0.5, 1.4) - bird.angle) * 0.15
tiltBird(b) ==
    LET targetAngle == Max(-25000, Min(70000, b.vy * 100))
    IN [b EXCEPT !.angle = @ + ((targetAngle - @) * 15) \div 100]

flapWings(b, dt) ==
    IF b.wingTimer + dt >= WING_PERIOD
    THEN [b EXCEPT !.wingTimer = 0, !.wingPhase = (@ + 1) % 3]
    ELSE [b EXCEPT !.wingTimer = @ + dt]

integrateBirdNoGravity(b, dt) ==
    flapWings(tiltBird([b EXCEPT !.y = @ + b.vy]), dt)

integrateBird(b, dt) ==
    LET vy1 == b.vy + GRAVITY
    IN flapWings(tiltBird([b EXCEPT !.vy = vy1, !.y = @ + vy1]), dt)

\* One pass of the body of "for (const p of activePipes)" for the k-th entry.
\* The result's gameState tells whether endGame() was called (early return).
scoresNowInclusive(p) == ~p.scored /\ p.x + PIPE_WIDTH \div 2 <= BIRD_X

scoresNow(p) == ~p.scored /\ p.x + PIPE_WIDTH \div 2 < BIRD_X

pipeStepRetiresEarly(w, k, seed) ==
    LET i == w.activePipes[k]
        p0 == w.pipePool[i]
        p1 == [p0 EXCEPT !.x = @ - PIPE_VELOCITY]
        sc == scoresNow(p1)
        p2 == IF sc THEN [p1 EXCEPT !.scored = TRUE] ELSE p1
        w2 == [w EXCEPT !.pipePool[i] = p2, !.score = IF sc THEN @ + 1 ELSE @]
    IN IF ~p0.active THEN w
       ELSE IF hitsPair(p2, w.bird.y) THEN endGame(w2, seed)
       ELSE IF p2.x + PIPE_WIDTH < LOGICAL_WIDTH
            THEN [w2 EXCEPT !.pipePool[i] = deactivate(@)]
            ELSE w2

pipeStep(w, k, seed) ==
    LET i == w.activePipes[k]
        p0 == w.pipePool[i]
        p1 == [p0 EXCEPT !.x = @ - PIPE_VELOCITY]
        sc == scoresNow(p1)
        p2 == IF sc THEN [p1 EXCEPT !.scored = TRUE] ELSE p1
        w2 == [w EXCEPT !.pipePool[i] = p2, !.score = IF sc THEN @ + 1 ELSE @]
    IN IF ~p0.active THEN w
       ELSE IF hitsPair(p2, w.bird.y) THEN endGame(w2, seed)
       ELSE IF p2.x + PIPE_WIDTH < -10 * PX
            THEN [w2 EXCEPT !.pipePool[i] = deactivate(@)]
            ELSE w2

RECURSIVE movePipes(_, _, _)
movePipes(w, k, seed) ==
    IF k > Len(w.activePipes) THEN w
    ELSE LET w1 == pipeStep(w, k, seed)
         IN IF w1.gameState = State.GameOver THEN w1 ELSE movePipes(w1, k + 1, seed)

spawnOnTimer(w, dt, r) ==
    LET t == w.spawnTimer + dt
    IN IF t >= PIPE_SPAWN_INTERVAL
       THEN spawnPipePair([w EXCEPT !.spawnTimer = t - PIPE_SPAWN_INTERVAL], r)
       ELSE [w EXCEPT !.spawnTimer = t]

boundaryCheckNoGround(w, seed) ==
    IF w.bird.y - BIRD_RADIUS < 0
    THEN endGame([w EXCEPT !.bird.y = BIRD_RADIUS, !.bird.vy = 0], seed)
    ELSE w

boundaryCheckKeepsVy(w, seed) ==
    LET groundY == LOGICAL_HEIGHT - GROUND_HEIGHT
    IN IF w.bird.y - BIRD_RADIUS < 0
       THEN endGame([w EXCEPT !.bird.y = BIRD_RADIUS], seed)
       ELSE IF w.bird.y + BIRD_RADIUS >= groundY
            THEN endGame([w EXCEPT !.bird.y = groundY - BIRD_RADIUS], seed)
            ELSE w

boundaryCheck(w, seed) ==
    LET groundY == LOGICAL_HEIGHT - GROUND_HEIGHT
    IN IF w.bird.y - BIRD_RADIUS < 0
       THEN endGame([w EXCEPT !.bird.y = BIRD_RADIUS, !.bird.vy = 0], seed)
       ELSE IF w.bird.y + BIRD_RADIUS >= groundY
            THEN endGame([w EXCEPT !.bird.y = groundY - BIRD_RADIUS], seed)
            ELSE w

clampDt(dtMs) == Min(dtMs, MAX_DT)

idleUpdateNoParticles(w, dt) == scrollBackground(w, dt)

\* the branch of update() taken in Paused, Menu and GameOver
idleUpdate(w, dt) == updateParticles(scrollBackground(w, dt), dt)

update(w, dtMs, r, seed) ==
    LET dt == clampDt(dtMs)
    IN IF w.gameState \in {State.Paused, State.Menu, State.GameOver}
       THEN idleUpdate(w, dt)
       ELSE LET w1 == aiAssist(w)
                w2 == [w1 EXCEPT !.bird = integrateBird(@, dt)]
                w3 == boundaryCheck(w2, seed)
            IN IF w3.gameState = State.GameOver THEN w3
               ELSE LET w4 == movePipes(spawnOnTimer(w3, dt, r), 1, seed)
                    IN IF w4.gameState = State.GameOver THEN w4
                       ELSE updateParticles(scrollBackground(w4, dt), dt)

\* loop(now): dt = now - lastTime; update(dt).  performance.now() read by the
\* autopilot in this frame is aiLastFlapTime + aiElapsed + dt; that clock never
\* runs backwards, also when the frame timestamps give a negative dt.
loop(w, dtMs, r, seed) ==
    update([w EXCEPT !.aiElapsed = Min(@ + Max(dtMs, 0), AI_COOLDOWN)], dtMs, r, seed)

\* -------------------------------------------------------------- actions
Commit(w) ==
    /\ gameState' = w.gameState
    /\ spawnTimer' = w.spawnTimer
    /\ score' = w.score
    /\ highScore' = w.highScore
    /\ bird' = w.bird
    /\ particles' = w.particles
    /\ pipePool' = w.pipePool
    /\ activePipes' = w.activePipes
    /\ groundOffset' = w.groundOffset
    /\ aiElapsed' = w.aiElapsed
    /\ localStorage' = w.localStorage
    /\ rafPending' = w.rafPending

\* lastEvent records the event delivered last and the state it was delivered in.
Event(name, cost) ==
    /\ cmds + cost <= MaxCommands
    /\ cmds' = cmds + cost
    /\ lastEvent' = [name |-> name, at |-> gameState]
    /\ UNCHANGED <<probe, reaction, breakout>>

InFlight == IF gameState = State.Playing THEN 1 ELSE 0

\* requestAnimationFrame(loop)
Frame ==
    /\ rafPending
    /\ gameState = State.Playing => score < MaxScore
    /\ \E dtMs \in FrameTimes :
          \E r \in (IF gameState = State.Playing /\ spawnTimer + clampDt(dtMs) >= PIPE_SPAWN_INTERVAL
                    THEN RandSamples ELSE {0}) :
             LET w == loop(world, dtMs, r, 0)
             IN IF gameState = State.Playing /\ w.gameState = State.GameOver
                THEN \E seed \in LifeSeeds : Commit(loop(world, dtMs, r, seed))
                ELSE Commit(w)
    /\ Event("frame", 0)
    /\ UNCHANGED <<PIPE_GAP, PIPE_VELOCITY, aiEnabled>>

\* requestAnimationFrame(loop) with an anomalous timestamp; at most MaxCommands
\* of them in a run
FrameAnomalous ==
    /\ rafPending
    /\ gameState = State.Playing => score < MaxScore
    /\ \E dtMs \in AnomalousTimes :
          \E r \in (IF gameState = State.Playing /\ spawnTimer + clampDt(dtMs) >= PIPE_SPAWN_INTERVAL
                    THEN RandSamples ELSE {0}) :
             LET w == loop(world, dtMs, r, 0)
             IN IF gameState = State.Playing /\ w.gameState = State.GameOver
                THEN \E seed \in LifeSeeds : Commit(loop(world, dtMs, r, seed))
                ELSE Commit(w)
    /\ Event("frame", 1)
    /\ UNCHANGED <<PIPE_GAP, PIPE_VELOCITY, aiEnabled>>

\* requestAnimationFrame(loop) after a 60 Hz refresh interval; at most
\* MaxCommands of them in a run
FrameShort ==
    /\ rafPending
    /\ gameState = State.Playing => score < MaxScore
    /\ \E dtMs \in ShortFrameTimes :
          \E r \in (IF gameState = State.Playing /\ spawnTimer + clampDt(dtMs) >= PIPE_SPAWN_INTERVAL
                    THEN RandSamples ELSE {0}) :
             LET w == loop(world, dtMs, r, 0)
             IN IF gameState = State.Playing /\ w.gameState = State.GameOver
                THEN \E seed \in LifeSeeds : Commit(loop(world, dtMs, r, seed))
                ELSE Commit(w)
    /\ Event("frame", 1)
    /\ UNCHANGED <<PIPE_GAP, PIPE_VELOCITY, aiEnabled>>

\* keydown Space / ArrowUp
KeyFlap ==
    /\ Event("flap", InFlight)
    /\ Commit(handleFlap(world))
    /\ UNCHANGED <<PIPE_GAP, PIPE_VELOCITY, aiEnabled>>

\* pointerdown on the canvas (recorded as a flap: it is one everywhere but in
\* GameOver, where neither does anything)
PointerDown ==
    /\ Event("flap", InFlight)
    /\ Commit(pointerDown(world))
    /\ UNCHANGED <<PIPE_GAP, PIPE_VELOCITY, aiEnabled>>

\* keydown KeyP
KeyP ==
    /\ Event("pause", InFlight)
    /\ Commit(togglePause(world))
    /\ UNCHANGED <<PIPE_GAP, PIPE_VELOCITY, aiEnabled>>

\* keydown KeyR
KeyR ==
    /\ Event("restart", 0)
    /\ Commit(restartGame(world))
    /\ UNCHANGED <<PIPE_GAP, PIPE_VELOCITY, aiEnabled>>

\* click on restartBtn / mobileRestartBtn
RestartBtn ==
    /\ Event("restart", 0)
    /\ Commit(restartGame(world))
    /\ UNCHANGED <<PIPE_GAP, PIPE_VELOCITY, aiEnabled>>

\* click on playBtn / mobilePlayBtn
PlayBtn ==
    /\ Event("start", 0)
    /\ Commit(startGame(world))
    /\ UNCHANGED <<PIPE_GAP, PIPE_VELOCITY, aiEnabled>>

easyMode(checked) == IF checked THEN EASY_MODE ELSE NORMAL_MODE

\* change on easyToggle
EasyToggle ==
    /\ Event("difficulty", 1)
    /\ \E checked \in BOOLEAN :
          /\ PIPE_GAP' = easyMode(checked).pipeGap
          /\ PIPE_VELOCITY' = easyMode(checked).pipeVelocity
    /\ UNCHANGED <<coreVars, aiEnabled>>

aiChangeOnly(w, checked) == w

aiChange(w, checked) == IF checked /\ w.gameState = State.Menu THEN startGame(w) ELSE w

\* change on aiToggle
AiToggle ==
    /\ Event("autopilot", 1)
    /\ \E checked \in BOOLEAN :
          /\ aiEnabled' = checked
          /\ Commit(aiChange(world, checked))
    /\ UNCHANGED <<PIPE_GAP, PIPE_VELOCITY>>

Init ==
    /\ gameState = State.Menu
    /\ spawnTimer = 0
    /\ score = 0
    /\ localStorage = [item |-> NoItem, writable |-> TRUE]
    /\ highScore = readHighScore(localStorage)
    /\ bird = [y |-> BIRD_START_Y, vy |-> 0, angle |-> 0, alive |-> TRUE,
               wingPhase |-> 0, wingTimer |-> 0]
    /\ particles = <<>>
    /\ pipePool = [i \in 1..MAX_POOL |-> createPipePair]
    /\ activePipes = <<>>
    /\ PIPE_GAP = NORMAL_MODE.pipeGap
    /\ PIPE_VELOCITY = NORMAL_MODE.pipeVelocity
    /\ groundOffset = 0
    /\ aiEnabled = FALSE
    /\ aiElapsed = 0
    /\ rafPending = TRUE
    /\ lastEvent = [name |-> "load", at |-> State.Menu]
    /\ cmds = 0
    /\ probe = NoProbe
    /\ reaction = ReactionBoot
    /\ breakout = BreakoutIdle

Next ==
    \/ Frame
    \/ KeyFlap
    \/ PointerDown
    \/ KeyP
    \/ KeyR
    \/ RestartBtn
    \/ PlayBtn
    \/ EasyToggle
    \/ AiToggle

Spec == Init /\ [][Next]_vars

\* Runs that begin with the autopilot checkbox ticked on the menu screen (the
\* state AiToggle leaves when it is the first event after load), followed by
\* frames and up to MaxCommands further events.
InitAuto ==
    /\ gameState = State.Playing
    /\ spawnTimer = 0
    /\ score = 0
    /\ highScore = 0
    /\ bird = [y |-> BIRD_START_Y, vy |-> 0, angle |-> 0, alive |-> TRUE,
               wingPhase |-> 0, wingTimer |-> 0]
    /\ particles = <<>>
    /\ pipePool = [i \in 1..MAX_POOL |-> createPipePair]
    /\ activePipes = <<>>
    /\ PIPE_GAP = NORMAL_MODE.pipeGap
    /\ PIPE_VELOCITY = NORMAL_MODE.pipeVelocity
    /\ groundOffset = 0
    /\ aiEnabled = TRUE
    /\ aiElapsed = 0
    /\ localStorage = [item |-> NoItem, writable |-> TRUE]
    /\ rafPending = TRUE
    /\ lastEvent = [name |-> "autopilot", at |-> State.Menu]
    /\ cmds = 0
    /\ probe = NoProbe
    /\ reaction = ReactionBoot
    /\ breakout = BreakoutIdle

NextAuto ==
    \/ Frame
    \/ KeyFlap

SpecAuto == InitAuto /\ [][NextAuto]_vars

\* Page loads with every persisted value of StoredItems, the autopilot checkbox
\* ticked on the menu screen as the first event, then frames and restarts.
InitStored ==
    /\ localStorage \in [item : StoredItems, writable : {TRUE}]
    /\ highScore = readHighScore(localStorage)
    /\ gameState = State.Playing
    /\ spawnTimer = 0
    /\ score = 0
    /\ bird = [y |-> BIRD_START_Y, vy |-> 0, angle |-> 0, alive |-> TRUE,
               wingPhase |-> 0, wingTimer |-> 0]
    /\ particles = <<>>
    /\ pipePool = [i \in 1..MAX_POOL |-> createPipePair]
    /\ activePipes = <<>>
    /\ PIPE_GAP = NORMAL_MODE.pipeGap
    /\ PIPE_VELOCITY = NORMAL_MODE.pipeVelocity
    /\ groundOffset = 0
    /\ aiEnabled = TRUE
    /\ aiElapsed = 0
    /\ rafPending = TRUE
    /\ lastEvent = [name |-> "autopilot", at |-> State.Menu]
    /\ cmds = 0
    /\ probe = NoProbe
    /\ reaction = ReactionBoot
    /\ breakout = BreakoutIdle

NextStored ==
    \/ Frame
    \/ KeyR

SpecStored == InitStored /\ [][NextStored]_vars

\* Autopilot sessions with restarts and up to MaxCommands flaps by hand, pauses
\* (resumed by a second P) or changes of the autopilot checkbox.
NextPilot ==
    \/ Frame
    \/ KeyFlap
    \/ KeyP
    \/ KeyR
    \/ AiToggle

SpecPilot == InitAuto /\ [][NextPilot]_vars

\* Page load followed by play-button clicks and frames, up to MaxCommands of
\* them with an anomalous frame time.
NextAnomaly ==
    \/ Frame
    \/ FrameAnomalous
    \/ PlayBtn

SpecAnomaly == Init /\ [][NextAnomaly]_vars

\* requestAnimationFrame keeps delivering frames while a callback is pending:
\* weak fairness of Frame.  It is written out as "infinitely often a frame that
\* changes the state is not due, or infinitely often one is delivered", with the
\* states in which one is due given by FrameDue: a callback is pending, the
\* frame guard holds, and the state is not one a frame leaves as it is (an idle
\* screen whose particles are gone and whose capped counters are at their caps).
FrameDue ==
    /\ rafPending
    /\ gameState = State.Playing => score < MaxScore
    /\ ~(/\ gameState # State.Playing
          /\ particles = <<>>
          /\ groundOffset = MaxGroundOffset
          /\ aiElapsed = AI_COOLDOWN
          /\ lastEvent = [name |-> "frame", at |-> gameState])
FrameDelivered == lastEvent'.name = "frame"
FrameFairness == []<>(~FrameDue) \/ []<><<FrameDelivered>>_vars

\* Scenario A: a freshly started session (play button on the menu screen,
\* autopilot off) that receives frames and nothing else.
InitFall ==
    /\ localStorage = [item |-> NoItem, writable |-> TRUE]
    /\ highScore = readHighScore(localStorage)
    /\ gameState = State.Playing
    /\ spawnTimer = 0
    /\ score = 0
    /\ bird = [y |-> BIRD_START_Y, vy |-> 0, angle |-> 0, alive |-> TRUE,
               wingPhase |-> 0, wingTimer |-> 0]
    /\ particles = <<>>
    /\ pipePool = [i \in 1..MAX_POOL |-> createPipePair]
    /\ activePipes = <<>>
    /\ PIPE_GAP = NORMAL_MODE.pipeGap
    /\ PIPE_VELOCITY = NORMAL_MODE.pipeVelocity
    /\ groundOffset = 0
    /\ aiEnabled = FALSE
    /\ aiElapsed = 0
    /\ rafPending = TRUE
    /\ lastEvent = [name |-> "start", at |-> State.Menu]
    /\ cmds = 0
    /\ probe = NoProbe
    /\ reaction = ReactionBoot
    /\ breakout = BreakoutIdle

NextFall == Frame

SpecFall == InitFall /\ [][NextFall]_vars /\ FrameFairness

\* Scenario D: an autopilot session in which no pair is ever spawned (spawn
\* interval set to infinity).  The spawn timer then never reaches the interval
\* and nothing else reads it: the frame is the source's loop(now) with the
\* timer held at 0, so that the spawn step of update() is passed without a
\* spawn in every frame.
HoverFrame ==
    /\ rafPending
    /\ \E dtMs \in FrameTimes :
          LET w == loop(world, dtMs, 0, 0)
          IN IF w.gameState = State.GameOver
             THEN \E seed \in LifeSeeds : Commit(loop(world, dtMs, 0, seed))
             ELSE Commit([w EXCEPT !.spawnTimer = 0])
    /\ Event("frame", 0)
    /\ UNCHANGED <<PIPE_GAP, PIPE_VELOCITY, aiEnabled>>

NextHover == HoverFrame

SpecHover == InitAuto /\ [][NextHover]_vars /\ FrameFairness

\* Calls of circleRectCollision on arguments of its own, made on the freshly
\* loaded page: the arguments are drawn at the start, Collide is the call.
ProbeInputs ==
    [done : {FALSE}, hit : {FALSE},
     cx : -MaxCoord..MaxCoord, cy : -MaxCoord..MaxCoord, cr : 0..MaxRadius,
     rx : RectOrigins, ry : RectOrigins, rw : 0..MaxSide, rh : 0..MaxSide]

Collide ==
    /\ ~probe.done
    /\ probe' = [probe EXCEPT !.done = TRUE,
                              !.hit = circleRectCollision(probe.cx, probe.cy, probe.cr,
                                                          probe.rx, probe.ry, probe.rw, probe.rh)]
    /\ UNCHANGED <<flappyVars, reaction, breakout>>

InitCollide ==
    /\ gameState = State.Menu
    /\ spawnTimer = 0
    /\ score = 0
    /\ localStorage = [item |-> NoItem, writable |-> TRUE]
    /\ highScore = readHighScore(localStorage)
    /\ bird = [y |-> BIRD_START_Y, vy |-> 0, angle |-> 0, alive |-> TRUE,
               wingPhase |-> 0, wingTimer |-> 0]
    /\ particles = <<>>
    /\ pipePool = [i \in 1..MAX_POOL |-> createPipePair]
    /\ activePipes = <<>>
    /\ PIPE_GAP = NORMAL_MODE.pipeGap
    /\ PIPE_VELOCITY = NORMAL_MODE.pipeVelocity
    /\ groundOffset = 0
    /\ aiEnabled = FALSE
    /\ aiElapsed = 0
    /\ rafPending = TRUE
    /\ lastEvent = [name |-> "load", at |-> State.Menu]
    /\ cmds = 0
    /\ probe \in ProbeInputs
    /\ reaction = ReactionBoot
    /\ breakout = BreakoutIdle

NextCollide == Collide

SpecCollide == InitCollide /\ [][NextCollide]_vars

\* The menu screen after load, and a session paused right after its start (play
\* button, then P), each followed by frames, flaps, play-button clicks and up to
\* MaxCommands changes of the autopilot checkbox.
InitLobby ==
    /\ gameState \in {State.Menu, State.Paused}
    /\ spawnTimer = 0
    /\ score = 0
    /\ localStorage = [item |-> NoItem, writable |-> TRUE]
    /\ highScore = readHighScore(localStorage)
    /\ bird = [y |-> BIRD_START_Y, vy |-> 0, angle |-> 0, alive |-> TRUE,
               wingPhase |-> 0, wingTimer |-> 0]
    /\ particles = <<>>
    /\ pipePool = [i \in 1..MAX_POOL |-> createPipePair]
    /\ activePipes = <<>>
    /\ PIPE_GAP = NORMAL_MODE.pipeGap
    /\ PIPE_VELOCITY = NORMAL_MODE.pipeVelocity
    /\ groundOffset = 0
    /\ aiEnabled = FALSE
    /\ aiElapsed = 0
    /\ rafPending = TRUE
    /\ lastEvent = IF gameState = State.Menu THEN [name |-> "load", at |-> State.Menu]
                   ELSE [name |-> "pause", at |-> State.Playing]
    /\ cmds = 0
    /\ probe = NoProbe
    /\ reaction = ReactionBoot
    /\ breakout = BreakoutIdle

NextLobby ==
    \/ Frame
    \/ KeyFlap
    \/ PlayBtn
    \/ AiToggle

SpecLobby == InitLobby /\ [][NextLobby]_vars

\* A player who starts a session with the play button and then taps the flap key
\* before every frame (32 ms frames): Tapped(n) is the session after n such
\* tap-and-frame pairs.  Runs begin there and go on with frames and up to
\* MaxCommands further flaps.
LoadedWorld ==
    [gameState |-> State.Menu, spawnTimer |-> 0, score |-> 0, highScore |-> 0,
     bird |-> [y |-> BIRD_START_Y, vy |-> 0, angle |-> 0, alive |-> TRUE,
               wingPhase |-> 0, wingTimer |-> 0],
     particles |-> <<>>, pipePool |-> [i \in 1..MAX_POOL |-> createPipePair],
     activePipes |-> <<>>, groundOffset |-> 0, aiElapsed |-> 0,
     localStorage |-> [item |-> NoItem, writable |-> TRUE], rafPending |-> TRUE]

RECURSIVE Tapped(_)
Tapped(n) ==
    IF n = 0 THEN startGame(LoadedWorld)
    ELSE LET before == Tapped(n - 1)
         IN IF before.gameState = State.Playing
            THEN loop(handleFlap(before), MAX_DT, 0, 0)
            ELSE before

InitClimb ==
    /\ PIPE_GAP = NORMAL_MODE.pipeGap
    /\ PIPE_VELOCITY = NORMAL_MODE.pipeVelocity
    /\ aiEnabled = FALSE
    /\ \E n \in ClimbTaps :
          LET w == Tapped(n)
          IN /\ gameState = w.gameState
             /\ spawnTimer = w.spawnTimer
             /\ score = w.score
             /\ highScore = w.highScore
             /\ bird = w.bird
             /\ particles = w.particles
             /\ pipePool = w.pipePool
             /\ activePipes = w.activePipes
             /\ groundOffset = w.groundOffset
             /\ aiElapsed = w.aiElapsed
             /\ localStorage = w.localStorage
             /\ rafPending = w.rafPending
    /\ lastEvent = [name |-> "frame", at |-> State.Playing]
    /\ cmds = 0
    /\ probe = NoProbe
    /\ reaction = ReactionBoot
    /\ breakout = BreakoutIdle

NextClimb ==
    \/ Frame
    \/ KeyFlap

SpecClimb == InitClimb /\ [][NextClimb]_vars

\* Freshly started sessions under either preset and with the autopilot on or
\* off (the checkboxes set on the menu screen before the start), with frames and
\* up to MaxCommands changes of the easy or the autopilot checkbox during the
\* session.
InitPool ==
    /\ \E preset \in {NORMAL_MODE, EASY_MODE} :
          /\ PIPE_GAP = preset.pipeGap
          /\ PIPE_VELOCITY = preset.pipeVelocity
    /\ gameState = State.Playing
    /\ spawnTimer = 0
    /\ score = 0
    /\ highScore = 0
    /\ bird = [y |-> BIRD_START_Y, vy |-> 0, angle |-> 0, alive |-> TRUE,
               wingPhase |-> 0, wingTimer |-> 0]
    /\ particles = <<>>
    /\ pipePool = [i \in 1..MAX_POOL |-> createPipePair]
    /\ activePipes = <<>>
    /\ groundOffset = 0
    /\ aiEnabled \in BOOLEAN
    /\ aiElapsed = 0
    /\ localStorage = [item |-> NoItem, writable |-> TRUE]
    /\ rafPending = TRUE
    /\ lastEvent = [name |-> "start", at |-> State.Menu]
    /\ cmds = 0
    /\ probe = NoProbe
    /\ reaction = ReactionBoot
    /\ breakout = BreakoutIdle

NextPool ==
    \/ Frame
    \/ EasyToggle
    \/ AiToggle

SpecPool == InitPool /\ [][NextPool]_vars

\* A session under a spawn interval of one 32 ms frame (PIPE_SPAWN_INTERVAL is a
\* tunable): every Playing frame spawns a pair, so the pool is exhausted from
\* the ninth frame on.  With the interval of the reference tuning in the model,
\* the frame is the source's loop(now) entered with the spawn timer one frame
\* short of the interval.
CrowdFrame ==
    /\ rafPending
    /\ \E dtMs \in FrameTimes :
          \E r \in (IF gameState = State.Playing THEN RandSamples ELSE {0}) :
             LET crowded == [world EXCEPT !.spawnTimer = PIPE_SPAWN_INTERVAL - MAX_DT]
                 w == loop(crowded, dtMs, r, 0)
             IN IF gameState = State.Playing /\ w.gameState = State.GameOver
                THEN \E seed \in LifeSeeds :
                        Commit([loop(crowded, dtMs, r, seed) EXCEPT !.spawnTimer = 0])
                ELSE Commit([w EXCEPT !.spawnTimer = 0])
    /\ Event("frame", 0)
    /\ UNCHANGED <<PIPE_GAP, PIPE_VELOCITY, aiEnabled>>

NextCrowd == CrowdFrame

SpecCrowd == InitFall /\ [][NextCrowd]_vars

\* A freshly started session that receives frames of 32 ms and up to MaxCommands
\* frames of 16 ms.
NextJitter ==
    \/ Frame
    \/ FrameShort

SpecJitter == InitFall /\ [][NextJitter]_vars

\* The reaction test page: clicks on the start button and the screen, Space and
\* Enter keys, the timeout firing, display frames, and the clock moving on.
\* At most MaxRounds rounds are started.
StartsRound == reaction.state = "idle"
RoundsLeft == StartsRound => reaction.nextTimer <= MaxRounds

StartBtn ==
    /\ RoundsLeft
    /\ reaction' = startBtnClick(reaction)
    /\ UNCHANGED <<flappyVars, probe, breakout>>

ScreenPointerDown ==
    /\ RoundsLeft
    /\ reaction' = handleScreenClick(reaction)
    /\ UNCHANGED <<flappyVars, probe, breakout>>

KeyDown ==
    /\ RoundsLeft
    /\ \E code \in {"Space", "Enter"} : reaction' = onKey(reaction, code)
    /\ UNCHANGED <<flappyVars, probe, breakout>>

TimeoutFires ==
    /\ \E id \in reaction.timers :
          reaction' = timeoutCallback([reaction EXCEPT !.timers = @ \ {id}])
    /\ UNCHANGED <<flappyVars, probe, breakout>>

AnimationFrame ==
    /\ reaction' = animationFrame(reaction)
    /\ UNCHANGED <<flappyVars, probe, breakout>>

Tick ==
    /\ reaction.now < MaxNow
    /\ reaction' = [reaction EXCEPT !.now = @ + 1]
    /\ UNCHANGED <<flappyVars, probe, breakout>>

InitReaction ==
    /\ gameState = State.Menu
    /\ spawnTimer = 0
    /\ score = 0
    /\ localStorage = [item |-> NoItem, writable |-> TRUE]
    /\ highScore = readHighScore(localStorage)
    /\ bird = [y |-> BIRD_START_Y, vy |-> 0, angle |-> 0, alive |-> TRUE,
               wingPhase |-> 0, wingTimer |-> 0]
    /\ particles = <<>>
    /\ pipePool = [i \in 1..MAX_POOL |-> createPipePair]
    /\ activePipes = <<>>
    /\ PIPE_GAP = NORMAL_MODE.pipeGap
    /\ PIPE_VELOCITY = NORMAL_MODE.pipeVelocity
    /\ groundOffset = 0
    /\ aiEnabled = FALSE
    /\ aiElapsed = 0
    /\ rafPending = TRUE
    /\ lastEvent = [name |-> "load", at |-> State.Menu]
    /\ cmds = 0
    /\ probe = NoProbe
    /\ reaction = resetToIdle(ReactionBoot)
    /\ breakout = BreakoutIdle

NextReaction ==
    \/ StartBtn
    \/ ScreenPointerDown
    \/ KeyDown
    \/ TimeoutFires
    \/ AnimationFrame
    \/ Tick

SpecReaction == InitReaction /\ [][NextReaction]_vars

\* Breakout: display frames (tick), Space or a mouse press on the canvas
\* (launchBall), R or the restart button, Escape, the arrow keys going down and
\* up, and the mouse moving over the canvas.  The paddle is steered while the
\* ball rests on it: at most MaxInputs arrow-key and mouse-move events are
\* delivered, each with the ball at rest.  A game is followed until MaxBroken
\* bricks are broken.
BreakoutTick ==
    /\ breakout.score < MaxBroken
    /\ breakout' = breakoutUpdate(breakout, breakout.interval)
    /\ UNCHANGED <<flappyVars, probe, reaction>>

BreakoutLaunch ==
    /\ \E k \in LaunchAngles : breakout' = launchBall(breakout, k)
    /\ UNCHANGED <<flappyVars, probe, reaction>>

BreakoutRestart ==
    /\ breakout' = restart(breakout)
    /\ UNCHANGED <<flappyVars, probe, reaction>>

BreakoutEscape ==
    /\ breakout' = [breakout EXCEPT !.paused = ~@]
    /\ UNCHANGED <<flappyVars, probe, reaction>>

Steering == breakout.ball.onPaddle /\ breakout.inputs < MaxInputs

BreakoutArrow ==
    /\ Steering
    /\ \E down \in BOOLEAN :
          \/ /\ breakout.input.left # down
             /\ breakout' = [breakout EXCEPT !.input.left = down, !.inputs = @ + 1]
          \/ /\ breakout.input.right # down
             /\ breakout' = [breakout EXCEPT !.input.right = down, !.inputs = @ + 1]
    /\ UNCHANGED <<flappyVars, probe, reaction>>

BreakoutMouseMove ==
    /\ Steering
    /\ \E x \in MouseXs :
          breakout' = [breakout EXCEPT !.input.mouseX = x, !.inputs = @ + 1]
    /\ UNCHANGED <<flappyVars, probe, reaction>>

InitBreakout ==
    /\ gameState = State.Menu
    /\ spawnTimer = 0
    /\ score = 0
    /\ localStorage = [item |-> NoItem, writable |-> TRUE]
    /\ highScore = readHighScore(localStorage)
    /\ bird = [y |-> BIRD_START_Y, vy |-> 0, angle |-> 0, alive |-> TRUE,
               wingPhase |-> 0, wingTimer |-> 0]
    /\ particles = <<>>
    /\ pipePool = [i \in 1..MAX_POOL |-> createPipePair]
    /\ activePipes = <<>>
    /\ PIPE_GAP = NORMAL_MODE.pipeGap
    /\ PIPE_VELOCITY = NORMAL_MODE.pipeVelocity
    /\ groundOffset = 0
    /\ aiEnabled = FALSE
    /\ aiElapsed = 0
    /\ rafPending = TRUE
    /\ lastEvent = [name |-> "load", at |-> State.Menu]
    /\ cmds = 0
    /\ probe = NoProbe
    /\ reaction = ReactionBoot
    /\ \E interval \in DisplayIntervals : breakout = BreakoutBoot(interval)

NextBreakout ==
    \/ BreakoutTick
    \/ BreakoutLaunch
    \/ BreakoutRestart
    \/ BreakoutEscape
    \/ BreakoutArrow
    \/ BreakoutMouseMove

SpecBreakout == InitBreakout /\ [][NextBreakout]_vars

\* Page load in a browser whose store refuses every write (quota exhausted,
\* storage disabled): an autopilot session with up to MaxCommands flaps by hand.
InitQuota ==
    /\ localStorage = [item |-> NoItem, writable |-> FALSE]
    /\ highScore = readHighScore(localStorage)
    /\ gameState = State.Playing
    /\ spawnTimer = 0
    /\ score = 0
    /\ bird = [y |-> BIRD_START_Y, vy |-> 0, angle |-> 0, alive |-> TRUE,
               wingPhase |-> 0, wingTimer |-> 0]
    /\ particles = <<>>
    /\ pipePool = [i \in 1..MAX_POOL |-> createPipePair]
    /\ activePipes = <<>>
    /\ PIPE_GAP = NORMAL_MODE.pipeGap
    /\ PIPE_VELOCITY = NORMAL_MODE.pipeVelocity
    /\ groundOffset = 0
    /\ aiEnabled = TRUE
    /\ aiElapsed = 0
    /\ rafPending = TRUE
    /\ lastEvent = [name |-> "autopilot", at |-> State.Menu]
    /\ cmds = 0
    /\ probe = NoProbe
    /\ reaction = ReactionBoot
    /\ breakout = BreakoutIdle

NextQuota ==
    \/ Frame
    \/ KeyFlap

SpecQuota == InitQuota /\ [][NextQuota]_vars

\* ================================================================ claims
States == {State.Menu, State.Playing, State.Paused, State.GameOver}
PoolSlots == 1..MAX_POOL
GroundY == LOGICAL_HEIGHT - GROUND_HEIGHT
Centre(p) == p.x + PIPE_WIDTH \div 2
sessionVars == <<gameState, spawnTimer, score, highScore, bird, particles, pipePool,
                 activePipes, groundOffset>>

\* C1: gameState is always one of the four states, and every change of it is one
\* of Menu->Playing, Playing->Paused, Paused->Playing, Playing->GameOver,
\* GameOver->Playing.
LegalTransitions ==
    {<<State.Menu, State.Playing>>, <<State.Playing, State.Paused>>,
     <<State.Paused, State.Playing>>, <<State.Playing, State.GameOver>>,
     <<State.GameOver, State.Playing>>}
C1_StateMachine ==
    /\ [](gameState \in States)
    /\ [][gameState' # gameState => <<gameState, gameState'>> \in LegalTransitions]_vars
C1_Witness ==
    /\ gameState = State.Playing
    /\ lastEvent = [name |-> "pause", at |-> State.Paused]

\* C2: the score changes only by +1 in a Playing frame, for exactly one pair whose
\* advanced centre has just passed strictly behind the body; a pair stays scored
\* for the rest of its activation; no active pair's centre is behind the body
\* unscored; the score is set to 0 only by a (re)start.
NewlyScored == {i \in PoolSlots : pipePool'[i].scored /\ ~pipePool[i].scored}
SameActivation(i) ==
    pipePool[i].active /\ pipePool'[i].active /\ pipePool'[i].x <= pipePool[i].x
C2_ScoreStep ==
    /\ \/ score' = score + Cardinality(NewlyScored) /\ Cardinality(NewlyScored) <= 1
       \/ /\ score' = 0
          /\ lastEvent'.name \in {"start", "restart", "flap", "autopilot"}
          /\ gameState' = State.Playing
          /\ NewlyScored = {}
    /\ \A i \in NewlyScored :
          /\ lastEvent' = [name |-> "frame", at |-> State.Playing]
          /\ pipePool[i].active
          /\ Centre(pipePool'[i]) < BIRD_X
          /\ ~(Centre(pipePool[i]) < BIRD_X)
    /\ \A i \in PoolSlots :
          /\ SameActivation(i) /\ pipePool[i].scored => pipePool'[i].scored
          /\ pipePool'[i].active /\ Centre(pipePool'[i]) < BIRD_X => pipePool'[i].scored
C2_ExactlyOnceScoring == [][C2_ScoreStep]_vars
C2_Witness == gameState = State.Playing /\ score = 2

C4_PoolCapacity ==
    /\ DOMAIN pipePool = PoolSlots
    /\ Len(activePipes) <= MAX_POOL
    /\ \A k \in 1..Len(activePipes) : activePipes[k] \in PoolSlots
    /\ \A j, k \in 1..Len(activePipes) : j # k => activePipes[j] # activePipes[k]
    /\ \A i \in PoolSlots : pipePool[i].active => i \in Range(activePipes)
C4_Witness ==
    /\ pipePool[1].active
    /\ \E j \in PoolSlots : j > 1 /\ pipePool[j].active /\ pipePool[1].x > pipePool[j].x

\* C5: in GameOver a flap key, a pointer click, a pause toggle, a frame and the two
\* toggles leave gameState = GameOver; GameOver is left only by a restart (R key,
\* restart button) or by the play button, whose handler is the same code, and
\* then to Playing with all session data reset.
SessionReset ==
    /\ score = 0
    /\ spawnTimer = 0
    /\ bird.y = BIRD_START_Y /\ bird.vy = 0 /\ bird.angle = 0
    /\ \A i \in PoolSlots : ~pipePool[i].active
    /\ activePipes = <<>>
    /\ particles = <<>>
C5_GameOverStep ==
    gameState = State.GameOver =>
        /\ lastEvent'.name \in {"flap", "pause", "autopilot", "difficulty", "frame"}
              => gameState' = State.GameOver
        /\ lastEvent'.name = "restart" => gameState' = State.Playing /\ SessionReset'
        /\ gameState' # State.GameOver =>
              /\ lastEvent'.name \in {"restart", "start"}
              /\ gameState' = State.Playing /\ SessionReset'
AgedBy(ps, d) ==
    SelectSeq([i \in 1..Len(ps) |-> [ps[i] EXCEPT !.age = @ + d]], LAMBDA q : q.age < q.life)
C6_IdleFrame ==
    (lastEvent'.name = "frame" /\ gameState # State.Playing) =>
        /\ UNCHANGED <<gameState, spawnTimer, score, highScore, bird, pipePool, activePipes>>
        /\ \E d \in 1..MAX_DT :
              /\ groundOffset' = Min(groundOffset + (PIPE_VELOCITY * d * 6) \div 10, MaxGroundOffset)
              /\ particles' = AgedBy(particles, d)
C6_FrozenWhileIdle == [][C6_IdleFrame]_vars
C6_Witness ==
    /\ lastEvent = [name |-> "frame", at |-> State.GameOver]
    /\ particles # <<>>
    /\ Len(particles) < EXPLOSION_COUNT

\* C7: no frame both ends the session through an obstacle hit and increments the
\* score for the pair that produced the hit.
ScoredAndHit ==
    /\ gameState = State.Playing /\ gameState' = State.GameOver
    /\ \E i \in PoolSlots :
          /\ pipePool[i].active /\ ~pipePool[i].scored
          /\ pipePool'[i].scored /\ score' = score + 1
          /\ hitsPair(pipePool'[i], bird'.y)
C7_NoScoreForKillingPair == [][~ScoredAndHit]_vars

\* C8: a restart issued in Menu, Playing or Paused is a no-op.
C8_RestartOnlyInGameOver ==
    [][(lastEvent'.name = "restart" /\ gameState # State.GameOver) => UNCHANGED sessionVars]_vars

\* C9: a flap in Paused or GameOver and a pause toggle in Menu or GameOver change
\* nothing; a flap in Playing sets vy and the angle and nothing else; a pause
\* toggle in Playing or Paused changes gameState only.
C9_FlapStep ==
    lastEvent'.name = "flap" =>
        /\ gameState \in {State.Paused, State.GameOver} =>
              UNCHANGED <<sessionVars, aiElapsed, PIPE_GAP, PIPE_VELOCITY, aiEnabled>>
        /\ gameState = State.Playing =>
              /\ bird'.vy = FLAP_VELOCITY
              /\ bird'.angle = FLAP_ANGLE
              /\ bird'.y = bird.y
              /\ bird'.wingPhase = bird.wingPhase /\ bird'.wingTimer = bird.wingTimer
              /\ UNCHANGED <<gameState, spawnTimer, score, highScore, particles, pipePool,
                             activePipes, groundOffset, aiElapsed, PIPE_GAP, PIPE_VELOCITY,
                             aiEnabled>>
C9_PauseStep ==
    lastEvent'.name = "pause" =>
        /\ gameState \in {State.Menu, State.GameOver} => gameState' = gameState
        /\ gameState = State.Playing => gameState' = State.Paused
        /\ gameState = State.Paused => gameState' = State.Playing
        /\ UNCHANGED <<spawnTimer, score, highScore, bird, particles, pipePool, activePipes,
                       groundOffset, aiElapsed, PIPE_GAP, PIPE_VELOCITY, aiEnabled>>
C9_FlapAndPauseGating == [][C9_FlapStep /\ C9_PauseStep]_vars
C9_Witness ==
    /\ lastEvent = [name |-> "flap", at |-> State.Playing]
    /\ bird.vy = FLAP_VELOCITY
    /\ bird.y > BIRD_START_Y

\* C10: every active pair's gapY lies within [minCenter, maxCenter] of the
\* configuration in force.
C10_GapCentreInRange ==
    \A i \in PoolSlots :
        pipePool[i].active =>
            /\ pipePool[i].gapY >= minCenter(PIPE_GAP)
            /\ pipePool[i].gapY <= maxCenter(PIPE_GAP)

\* C21: a difficulty change issued while a session is active (Playing or Paused)
\* changes neither the gap height nor the obstacle speed that update() reads.
C21_Step ==
    gameState \in {State.Playing, State.Paused} =>
        PIPE_GAP' = PIPE_GAP /\ PIPE_VELOCITY' = PIPE_VELOCITY
C21_DifficultyBetweenSessions == [][C21_Step]_vars

\* C22: circleRectCollision is true exactly when some point of the rectangle
\* [rx, rx+rw] x [ry, ry+rh] lies within squared distance cr*cr of the centre:
\* a circle touching a corner collides, a smaller one does not, a centre inside
\* the rectangle always collides; the call changes nothing but its result.
Dist2(ax, ay, bx, by) == (ax - bx) * (ax - bx) + (ay - by) * (ay - by)
RectPoints(q) == (q.rx..(q.rx + q.rw)) \X (q.ry..(q.ry + q.rh))
CornerDist2(q) == Dist2(q.cx, q.cy, q.rx + q.rw, q.ry + q.rh)
BeyondCorner(q) == q.cx > q.rx + q.rw /\ q.cy > q.ry + q.rh
C22_CircleRect ==
    probe.done =>
        /\ probe.hit <=> \E pt \in RectPoints(probe) :
                            Dist2(probe.cx, probe.cy, pt[1], pt[2]) <= probe.cr * probe.cr
        /\ BeyondCorner(probe) => (probe.hit <=> CornerDist2(probe) <= probe.cr * probe.cr)
        /\ <<probe.cx, probe.cy>> \in RectPoints(probe) => probe.hit
        /\ gameState = State.Menu /\ lastEvent.name = "load" /\ score = 0
C22_Witness ==
    /\ probe.done /\ probe.hit
    /\ BeyondCorner(probe)
    /\ probe.cr > 0
    /\ CornerDist2(probe) = probe.cr * probe.cr

\* C23: in Menu the play button, a flap and ticking the autopilot checkbox each
\* lead to Playing with a freshly reset session and vy = 0 (no impulse); ticking
\* the autopilot checkbox in GameOver or Paused leaves gameState as it is.
LeavesMenu ==
    \/ lastEvent'.name \in {"start", "flap"}
    \/ lastEvent'.name = "autopilot" /\ aiEnabled'
C23_Step ==
    /\ (gameState = State.Menu /\ LeavesMenu) =>
          /\ gameState' = State.Playing
          /\ SessionReset'
          /\ groundOffset' = 0
          /\ bird'.vy = 0
    /\ (gameState \in {State.GameOver, State.Paused} /\ lastEvent'.name = "autopilot") =>
          gameState' = gameState
C23_LeavingMenu == [][C23_Step]_vars
C23_Witness ==
    /\ gameState = State.Playing
    /\ lastEvent = [name |-> "autopilot", at |-> State.Menu]
    /\ aiEnabled
    /\ bird.vy = 0 /\ bird.y = BIRD_START_Y
    /\ highScore = 0

\* C11: highScore never decreases, changes only in the step that enters GameOver,
\* and on entering GameOver equals max(previous highScore, final score), so that
\* highScore >= score.
C11_Step ==
    /\ ~jsLT(highScore', highScore)
    /\ highScore' # highScore => gameState = State.Playing /\ gameState' = State.GameOver
    /\ (gameState = State.Playing /\ gameState' = State.GameOver) =>
          /\ highScore' = Max(highScore, score')
          /\ jsGE(highScore', score')
C11_BestScoreMonotone == [][C11_Step]_vars

\* C12: from every GameOver state one restart and two restarts in a row give the
\* same state: Playing, score 0, spawn timer 0, body at its start pose, every
\* slot inactive, active list and particle collection empty.
CanonicalStart(w) ==
    /\ w.gameState = State.Playing
    /\ w.score = 0
    /\ w.spawnTimer = 0
    /\ w.bird = [y |-> (LOGICAL_HEIGHT * 4) \div 10, vy |-> 0, angle |-> 0, alive |-> TRUE,
                 wingPhase |-> 0, wingTimer |-> 0]
    /\ \A i \in PoolSlots : ~w.pipePool[i].active
    /\ w.activePipes = <<>>
    /\ w.particles = <<>>
C12_FromGameOver ==
    gameState = State.GameOver =>
        /\ CanonicalStart(restartGame(world))
        /\ restartGame(restartGame(world)) = restartGame(world)
C12_SecondRestart ==
    (lastEvent.name = "restart" /\ lastEvent'.name = "restart") =>
        /\ CanonicalStart(world')
        /\ lastEvent.at = State.GameOver => UNCHANGED <<coreVars, PIPE_GAP, PIPE_VELOCITY, aiEnabled>>
C12_RestartIdempotent == [](C12_FromGameOver) /\ [][C12_SecondRestart]_vars
C12_Witness ==
    /\ lastEvent = [name |-> "restart", at |-> State.Playing]
    /\ CanonicalStart(world)
    /\ highScore > 0

\* C13: a freshly started session that receives no impulse reaches GameOver, by
\* ground contact and with score 0; endGame runs once: GameOver is never left
\* again and no second particle burst is added.
C13_EndedOnGround ==
    gameState = State.GameOver =>
        /\ score = 0
        /\ bird.y = GroundY - BIRD_RADIUS
        /\ Len(particles) <= EXPLOSION_COUNT
C13_EndsOnce ==
    gameState = State.GameOver =>
        /\ gameState' = State.GameOver
        /\ Len(particles') <= Len(particles)
        /\ UNCHANGED <<score, highScore, bird>>
C13_FreeFall ==
    /\ <>(gameState = State.GameOver)
    /\ [](C13_EndedOnGround)
    /\ [][C13_EndsOnce]_vars
C13_Witness ==
    /\ gameState = State.GameOver
    /\ particles = <<>>
    /\ bird.y = GroundY - BIRD_RADIUS
    /\ lastEvent = [name |-> "frame", at |-> State.GameOver]

\* C14: every Playing frame that reaches the spawn step adds its clamped frame
\* time to the spawn timer and takes one interval off it per pair spawned, and
\* leaves 0 <= spawnTimer < PIPE_SPAWN_INTERVAL.
ClampedTimes == {clampDt(t) : t \in FrameTimes \cup AnomalousTimes}
NewlySpawned ==
    {i \in PoolSlots : /\ pipePool'[i].active
                       /\ ~pipePool[i].active \/ pipePool'[i].x > pipePool[i].x}
C14_Step ==
    (lastEvent'.name = "frame" /\ gameState = State.Playing) =>
        \/ /\ gameState' = State.GameOver
           /\ spawnTimer' = spawnTimer
           /\ NewlySpawned = {}
        \/ /\ \E d \in ClampedTimes :
                 spawnTimer' + PIPE_SPAWN_INTERVAL * Cardinality(NewlySpawned) = spawnTimer + d
           /\ 0 <= spawnTimer' /\ spawnTimer' < PIPE_SPAWN_INTERVAL
C14_SpawnCadence == [][C14_Step]_vars

\* C15: whatever frame time is delivered, the step applied to the spawn timer, the
\* animation timer, the background offset and the particle ages lies in [0, 32] ms.
StepInRange(before, after) == after - before >= 0 /\ after - before <= MAX_DT
C15_Step ==
    lastEvent'.name = "frame" =>
        /\ groundOffset' >= groundOffset
        /\ groundOffset' - groundOffset <= (PIPE_VELOCITY * MAX_DT * 6) \div 10
        /\ gameState' # State.Playing =>
              \/ Len(particles') > Len(particles)
              \/ \E d \in 0..MAX_DT : particles' = AgedBy(particles, d)
        /\ (gameState = State.Playing /\ gameState' = State.Playing) =>
              /\ \/ StepInRange(spawnTimer, spawnTimer')
                 \/ StepInRange(spawnTimer, spawnTimer' + PIPE_SPAWN_INTERVAL)
              /\ \/ bird'.wingTimer = 0
                 \/ StepInRange(bird.wingTimer, bird'.wingTimer)
C15_StepWithinClamp == [][C15_Step]_vars

\* C16: the autopilot applies an impulse only in a Playing frame with autopilot
\* enabled and only when at least AI_COOLDOWN ms of clock time have passed since
\* its previous impulse; that clock (aiElapsed, capped at AI_COOLDOWN) runs on
\* through pauses, idle screens and restarts and is reset by autopilot impulses
\* only, not by flaps made by hand.
AiImpulse ==
    /\ lastEvent'.name = "frame"
    /\ gameState = State.Playing
    /\ bird.vy # FLAP_VELOCITY
    /\ bird'.vy = FLAP_VELOCITY + GRAVITY
C16_Step ==
    /\ AiImpulse =>
          /\ aiEnabled
          /\ \E dtMs \in FrameTimes : aiElapsed + dtMs >= AI_COOLDOWN
          /\ aiElapsed' = 0
    /\ (lastEvent'.name = "frame" /\ ~AiImpulse) =>
          \E dtMs \in FrameTimes : aiElapsed' = Min(aiElapsed + dtMs, AI_COOLDOWN)
    /\ lastEvent'.name # "frame" => aiElapsed' = aiElapsed
C16_AutopilotRateLimit == [][C16_Step]_vars
C16_Witness ==
    /\ aiEnabled
    /\ gameState = State.Playing
    /\ lastEvent = [name |-> "frame", at |-> State.Playing]
    /\ bird.vy = FLAP_VELOCITY + GRAVITY
    /\ aiElapsed = 0
    /\ cmds = 1

\* C17: in every Playing state the autopilot's target is the gap centre of the
\* active pair with the smallest x among those whose trailing edge has not passed
\* the body (taken as the source takes it: x + PIPE_WIDTH > BIRD_X - 5), and the
\* fallback 0.6 * LOGICAL_HEIGHT when there is none.
Ahead == {i \in PoolSlots : pipePool[i].active /\ pipePool[i].x + PIPE_WIDTH > BIRD_X - 5 * PX}
NearestGapY ==
    IF Ahead = {} THEN (LOGICAL_HEIGHT * 6) \div 10
    ELSE pipePool[CHOOSE i \in Ahead : \A j \in Ahead : pipePool[i].x <= pipePool[j].x].gapY
C17_TargetsNearest ==
    (gameState = State.Playing /\ aiEnabled) => aiTargetY(world) = NearestGapY

\* C18: with autopilot on and no pair ever spawned the body never rises above the
\* ceiling margin (y >= 80) and the session does not end; the autopilot flaps only
\* while the projected position is below the band of the fallback target
\* (0.6 * LOGICAL_HEIGHT + 10), and after every impulse the body gets back to the
\* band with the autopilot silent.
JustFlapped == bird.vy = FLAP_VELOCITY + GRAVITY
BandBottom == (LOGICAL_HEIGHT * 6) \div 10 + 10 * PX
C18_Safe ==
    /\ gameState = State.Playing
    /\ bird.y >= 80 * PX
C18_FlapsBelowBandOnly ==
    AiImpulse => bird.y + 10 * bird.vy + 50 * GRAVITY > BandBottom
C19_WriteFailureSwallowed == ~localStorage.writable => rafPending

\* C20: while the persisted value is absent or is no integer text, the best score
\* is 0 until a session ends with a positive score, which then is the best score
\* (and is written, making the persisted value an integer text).
IsIntegerText(t) ==
    LET body == IF t # <<>> /\ Head(t) \in {"-", "+"} THEN Tail(t) ELSE t
    IN body # <<>> /\ LeadingDigits(body) = Len(body)
C20_ReadDefault ==
    (~localStorage.item.present \/ ~IsIntegerText(localStorage.item.text)) =>
        /\ highScore = 0
        /\ ~(gameState = State.GameOver /\ score > 0)

\* C24: in a Playing frame, with vy1 = vy + GRAVITY and y1 = y + vy1: when
\* y1 - radius < 0 the body is put at y = radius with vy = 0 and the session
\* ends; otherwise when y1 + radius >= groundY the body is put at
\* groundY - radius and the session ends; in both cases the spawn timer, the
\* pairs, the active list and the score are as before the frame.  Otherwise the
\* body is at y1 with vy1.
FrameVy == IF AiImpulse THEN FLAP_VELOCITY + GRAVITY ELSE bird.vy + GRAVITY
FrameY == bird.y + FrameVy
C24_Step ==
    (lastEvent'.name = "frame" /\ gameState = State.Playing) =>
        IF FrameY - BIRD_RADIUS < 0
        THEN /\ bird'.y = BIRD_RADIUS /\ bird'.vy = 0
             /\ gameState' = State.GameOver
             /\ UNCHANGED <<spawnTimer, pipePool, activePipes, score>>
        ELSE IF FrameY + BIRD_RADIUS >= GroundY
        THEN /\ bird'.y = GroundY - BIRD_RADIUS /\ bird'.vy = FrameVy
             /\ gameState' = State.GameOver
             /\ UNCHANGED <<spawnTimer, pipePool, activePipes, score>>
        ELSE bird'.y = FrameY /\ bird'.vy = FrameVy
C24_LethalBounds == [][C24_Step]_vars
C24_Witness ==
    /\ gameState = State.GameOver
    /\ lastEvent = [name |-> "frame", at |-> State.Playing]
    /\ bird.y = BIRD_RADIUS /\ bird.vy = 0
    /\ activePipes # <<>>
    /\ spawnTimer > 0

\* C25: a Playing frame in which the body passes the boundary check ends the
\* session exactly when the body circle intersects the rectangle above or below
\* the gap of some active pair of the active list at its advanced position; the
\* pairs listed after the first such pair are left as they were (not advanced,
\* scored or retired), the pairs listed before it are advanced.
PairBefore(i) ==
    IF i \in NewlySpawned
    THEN [x |-> LOGICAL_WIDTH + PIPE_WIDTH, gapY |-> pipePool'[i].gapY,
          scored |-> FALSE, active |-> TRUE]
    ELSE pipePool[i]
PairAdvanced(i) == [PairBefore(i) EXCEPT !.x = @ - PIPE_VELOCITY]
HitsAbove(p, y) ==
    circleRectCollision(BIRD_X, y, BIRD_RADIUS, p.x, 0, PIPE_WIDTH, p.gapY - PIPE_GAP \div 2)
HitsBelow(p, y) ==
    circleRectCollision(BIRD_X, y, BIRD_RADIUS, p.x, p.gapY + PIPE_GAP \div 2, PIPE_WIDTH,
                        GroundY - (p.gapY + PIPE_GAP \div 2))
HitAt(k) ==
    LET i == activePipes'[k]
    IN /\ PairBefore(i).active
       /\ HitsAbove(PairAdvanced(i), bird'.y) \/ HitsBelow(PairAdvanced(i), bird'.y)
HitEntries == {k \in 1..Len(activePipes') : HitAt(k)}
FirstHit == CHOOSE k \in HitEntries : \A j \in HitEntries : k <= j
C25_Step ==
    (/\ lastEvent'.name = "frame" /\ gameState = State.Playing
     /\ FrameY - BIRD_RADIUS >= 0 /\ FrameY + BIRD_RADIUS < GroundY) =>
        /\ gameState' = State.GameOver <=> HitEntries # {}
        /\ HitEntries # {} =>
              /\ \A k \in (FirstHit + 1)..Len(activePipes') :
                    pipePool'[activePipes'[k]] = PairBefore(activePipes'[k])
              /\ \A k \in 1..(FirstHit - 1) :
                    PairBefore(activePipes'[k]).active =>
                        \/ pipePool'[activePipes'[k]].x = PairAdvanced(activePipes'[k]).x
                        \/ ~pipePool'[activePipes'[k]].active
C25_ObstacleHitEnds == [][C25_Step]_vars
C25_Witness ==
    /\ gameState = State.GameOver
    /\ lastEvent = [name |-> "frame", at |-> State.Playing]
    /\ bird.y > BIRD_RADIUS /\ bird.y < GroundY - BIRD_RADIUS
    /\ \E k \in 1..(Len(activePipes) - 1) :
          /\ pipePool[activePipes[k]].active
          /\ HitsAbove(pipePool[activePipes[k]], bird.y)
          /\ pipePool[activePipes[k + 1]].active
          /\ pipePool[activePipes[k + 1]].x < LOGICAL_WIDTH

\* C26: under the reference tuning (either preset, also when the preset is
\* changed during the session) every spawn finds an inactive slot: the slot a
\* frame spawns into is the first slot that was inactive before the frame.
ActiveSlots == {i \in PoolSlots : pipePool[i].active}
C26_Step ==
    (lastEvent'.name = "frame" /\ NewlySpawned # {}) =>
        /\ ActiveSlots # PoolSlots
        /\ NewlySpawned = {CHOOSE i \in PoolSlots \ ActiveSlots :
                              \A j \in PoolSlots \ ActiveSlots : i <= j}
C26_NoPoolExhaustion == [][C26_Step]_vars
C26_Witness ==
    /\ Cardinality(ActiveSlots) = 6
    /\ pipePool[1].active /\ pipePool[6].active
    /\ lastEvent = [name |-> "frame", at |-> State.Playing]

\* C27: acquirePipePair returns the first inactive slot in pool order when there
\* is one and slot 0 (the first) when all slots are active; spawnPipePair then
\* makes that slot a new pair (x = LOGICAL_WIDTH + PIPE_WIDTH, a gap centre of the
\* range, scored = false, active = true), also when it was scored before, and
\* leaves the other slots and, under exhaustion, the active list as they are: no
\* second entry, 8 active pairs.
FullSpawn(w, r) ==
    LET after == spawnPipePair(w, r)
    IN /\ after.pipePool[1].x = LOGICAL_WIDTH + PIPE_WIDTH
       /\ after.pipePool[1].gapY >= minCenter(PIPE_GAP)
       /\ after.pipePool[1].gapY <= maxCenter(PIPE_GAP)
       /\ ~after.pipePool[1].scored /\ after.pipePool[1].active
       /\ \A i \in 2..MAX_POOL : after.pipePool[i] = w.pipePool[i]
       /\ after.activePipes = w.activePipes
       /\ Len(after.activePipes) = MAX_POOL
       /\ \A i \in PoolSlots : after.pipePool[i].active
C27_Acquire ==
    /\ ActiveSlots # PoolSlots =>
          /\ ~pipePool[acquirePipePair(pipePool)].active
          /\ \A j \in 1..(acquirePipePair(pipePool) - 1) : pipePool[j].active
    /\ ActiveSlots = PoolSlots =>
          /\ acquirePipePair(pipePool) = 1
          /\ \A r \in RandSamples :
                /\ FullSpawn(world, r)
                /\ FullSpawn([world EXCEPT !.pipePool[1].scored = TRUE], r)
C27_FrameUnderExhaustion ==
    (lastEvent'.name = "frame" /\ gameState = State.Playing /\ ActiveSlots = PoolSlots) =>
        /\ Len(activePipes') = MAX_POOL
        /\ \A j, k \in 1..MAX_POOL : j # k => activePipes'[j] # activePipes'[k]
        /\ gameState' = State.Playing =>
              /\ pipePool'[1] = [x |-> LOGICAL_WIDTH + PIPE_WIDTH - PIPE_VELOCITY,
                                 gapY |-> pipePool'[1].gapY, scored |-> FALSE, active |-> TRUE]
              /\ \A i \in PoolSlots : pipePool'[i].active
ShouldFlap ==
    /\ ~(bird.y < 80 * PX)
    /\ ~(bird.vy * 2 < -PX)
    /\ bird.y + 10 * bird.vy + (GRAVITY * 10 * 10) \div 2 > aiTargetY(world) + 10 * PX
C28_Decision ==
    (gameState = State.Playing /\ aiEnabled) =>
        LET ready == [world EXCEPT !.aiElapsed = AI_COOLDOWN]
        IN aiThinkAndMaybeFlap(ready) =
              IF ShouldFlap
              THEN [ready EXCEPT !.bird.vy = FLAP_VELOCITY, !.bird.angle = FLAP_ANGLE,
                                 !.aiElapsed = 0]
              ELSE ready
AiFlap == aiElapsed' = 0
C28_FrameStep ==
    (lastEvent'.name = "frame" /\ gameState = State.Playing /\ aiEnabled) =>
        /\ AiFlap =>
              /\ ShouldFlap
              /\ \E dtMs \in FrameTimes : aiElapsed + dtMs >= AI_COOLDOWN
              /\ bird'.vy = FLAP_VELOCITY + GRAVITY
        /\ (ShouldFlap /\ \A dtMs \in FrameTimes : aiElapsed + dtMs >= AI_COOLDOWN) => AiFlap
        /\ (~AiFlap /\ gameState' = State.Playing) =>
              bird'.vy = bird.vy + GRAVITY /\ bird'.y = bird.y + bird.vy + GRAVITY
C28_DecisionRule == [](C28_Decision) /\ [][C28_FrameStep]_vars
C28_Witness ==
    /\ aiEnabled /\ gameState = State.Playing
    /\ lastEvent = [name |-> "frame", at |-> State.Playing]
    /\ aiElapsed = 0 /\ bird.vy = FLAP_VELOCITY + GRAVITY
    /\ aiNext(world) # 0
    /\ score >= 1

\* C29: particles are added only by the frame that ends a session, 28 at a time
\* and with age 0; every other frame ages each particle by the frame's step and
\* drops those whose age has reached their lifetime, in Menu, Paused and GameOver
\* alike; the collection is emptied only by a start or restart; it never holds
\* more than 28 particles.
FreshParticles(ps) ==
    /\ Len(ps) = 28
    /\ \A i \in 1..Len(ps) : ps[i].age = 0 /\ ps[i].life >= 600 /\ ps[i].life < 1000
C29_Step ==
    /\ (gameState = State.Playing /\ gameState' = State.GameOver) =>
          /\ lastEvent'.name = "frame"
          /\ Len(particles') = Len(particles) + 28
          /\ SubSeq(particles', 1, Len(particles)) = particles
          /\ FreshParticles(SubSeq(particles', Len(particles) + 1, Len(particles')))
    /\ (lastEvent'.name = "frame" /\ ~(gameState = State.Playing /\ gameState' = State.GameOver)) =>
          \E d \in 1..MAX_DT :
              particles' = SelectSeq([i \in 1..Len(particles) |->
                                         [particles[i] EXCEPT !.age = @ + d]],
                                     LAMBDA q : q.age < q.life)
    /\ lastEvent'.name # "frame" =>
          \/ particles' = particles
          \/ /\ particles' = <<>>
             /\ gameState' = State.Playing /\ SessionReset'
             /\ lastEvent'.name \in {"start", "restart", "flap", "autopilot"}
C29_ParticleLifecycle == [](Len(particles) <= 28) /\ [][C29_Step]_vars
C29_Witness ==
    /\ gameState = State.GameOver
    /\ lastEvent.name = "pause"
    /\ particles # <<>>
    /\ \E i \in 1..Len(particles) : particles[i].age > 0
    /\ Len(particles) < 28

\* C30: a Playing frame that completes the obstacle step moves every pair that was
\* active before it by the obstacle speed scaled to the frame's elapsed time
\* (PIPE_VELOCITY per 1000/60 ms, the scale scrollBackground applies), retires it
\* exactly when its trailing edge x + PIPE_WIDTH has then fallen below -10, and
\* leaves inactive pairs as they are.
FrameStepMs ==
    IF spawnTimer' >= spawnTimer THEN spawnTimer' - spawnTimer
    ELSE spawnTimer' + PIPE_SPAWN_INTERVAL - spawnTimer
ScaledSpeed(d) == (PIPE_VELOCITY * d * 6) \div 100
C30_Step ==
    (lastEvent'.name = "frame" /\ gameState = State.Playing /\ gameState' = State.Playing) =>
        \A i \in PoolSlots \ NewlySpawned :
            IF pipePool[i].active
            THEN /\ pipePool'[i].active => pipePool'[i].x = pipePool[i].x - ScaledSpeed(FrameStepMs)
                 /\ ~pipePool'[i].active <=>
                        pipePool[i].x - ScaledSpeed(FrameStepMs) + PIPE_WIDTH < -10 * PX
            ELSE pipePool'[i] = pipePool[i]
C30_ObstacleAdvance == [][C30_Step]_vars

\* C31: a pair that a frame deactivates because it has left the screen is scored;
\* the score is the number of activations of this session whose centre has passed
\* behind the body (the scored active pairs, the retired slots, and the slots
\* spawned into again after their retirement), and it is at most the number of
\* pairs spawned in the session.
Listed == Range(activePipes)
ScoredActive == {i \in ActiveSlots : pipePool[i].scored}
Retired == {i \in Listed : ~pipePool[i].active}
Respawned ==
    {i \in ActiveSlots :
        \E j \in ActiveSlots :
            /\ pipePool[j].x < pipePool[i].x
            /\ \E a, b \in 1..Len(activePipes) : a < b /\ activePipes[a] = i /\ activePipes[b] = j}
C31_Counts ==
    gameState \in {State.Playing, State.Paused} =>
        /\ score = Cardinality(ScoredActive) + Cardinality(Retired) + Cardinality(Respawned)
        /\ score <= Len(activePipes) + Cardinality(Respawned)
        /\ \A i \in ActiveSlots : pipePool[i].scored <=> Centre(pipePool[i]) < BIRD_X
C31_Retire ==
    lastEvent'.name = "frame" =>
        \A i \in ActiveSlots :
            ~pipePool'[i].active =>
                /\ pipePool[i].scored
                /\ pipePool[i].x - PIPE_VELOCITY + PIPE_WIDTH < -10 * PX
C31_NoPairRetiresUnscored == [](C31_Counts) /\ [][C31_Retire]_vars
C31_Witness ==
    /\ gameState = State.Playing
    /\ Retired # {}
    /\ score >= 2

\* C32: a timeout is pending exactly while state is 'waiting', and then it is the
\* one timeoutId names and the only one; 'go' is entered only from 'waiting', by
\* that timeout firing; a click in 'waiting' cancels the timeout and leads to
\* 'idle'; no step leaves two timeouts pending.
C32_Pending ==
    /\ reaction.timers # {} <=> reaction.state = "waiting"
    /\ reaction.state = "waiting" => reaction.timers = {reaction.timeoutId}
    /\ reaction.state # "waiting" => reaction.timeoutId = 0
    /\ Cardinality(reaction.timers) <= 1
C32_Step ==
    /\ (reaction'.state = "go" /\ reaction.state # "go") =>
          /\ reaction.state = "waiting"
          /\ reaction.timers = {reaction.timeoutId} /\ reaction'.timers = {}
    /\ (reaction.state = "waiting" /\ reaction'.state = "idle") =>
          reaction'.timers = {} /\ reaction'.message = "early"
C32_TimerDiscipline == [](C32_Pending) /\ [][C32_Step]_vars
C32_Witness ==
    /\ reaction.state = "go"
    /\ reaction.nextTimer = 3
    /\ reaction.message = "go"
    /\ reaction.elapsed = NoBest

\* C33: a click or key press accepted in state 'go' reports a time measured from
\* a startTime assigned since state became 'go'.
C33_Step ==
    (reaction.state = "go" /\ reaction'.state = "idle") =>
        /\ reaction.fresh
        /\ reaction'.elapsed = reaction.now - reaction.startTime
        /\ reaction'.elapsed >= 0 /\ reaction'.elapsed < MaxNow
C33_MeasuredFromThisRound == [][C33_Step]_vars


\* ---------------------------------------------------------------- C34
\* The frame update() is about to run moves the ball below the bottom edge.
Falling(s) ==
    /\ s.running /\ ~s.paused
    /\ LET dtScale == (Min(s.interval, UPDATE_MAX_DT) * 60) \div 1000
           moved == hitBricks(hitPaddle(hitWalls(moveBall(movePaddle(s, dtScale), dtScale))))
       IN moved.ball.y - CONFIG.ballRadius > CONFIG.canvasHeight

\* The ball lies on the paddle, centred, with no velocity.
AtRest(s) ==
    /\ s.ball.onPaddle
    /\ s.ball.dx = 0 /\ s.ball.dy = 0
    /\ s.ball.x = s.paddle.x + CONFIG.paddleWidth \div 2
    /\ s.ball.y = PADDLE_Y - CONFIG.ballRadius - 1 * MPX

C34_Lives ==
    /\ breakout.lives \in 0..CONFIG.startingLives
    /\ breakout.lost <=> breakout.lives = 0
    /\ breakout.running <=> breakout.lives >= 1
    /\ breakout.lost =>
          /\ breakout.lives = 0 /\ ~breakout.running
          /\ breakoutUpdate(breakout, breakout.interval) = breakout
          /\ \A k \in LaunchAngles : launchBall(breakout, k) = breakout

C34_Step ==
    /\ breakout'.lives # breakout.lives =>
          \/ breakout'.lives = CONFIG.startingLives
          \/ /\ Falling(breakout)
             /\ breakout'.lives = breakout.lives - 1
             /\ AtRest(breakout')
    /\ (/\ ~breakout.ball.onPaddle /\ breakout'.ball.onPaddle
        /\ Falling(breakout) /\ breakout' # restart(breakout)) =>
          /\ breakout'.lives = breakout.lives - 1
          /\ AtRest(breakout')
    /\ (breakout.lost /\ breakout'.lives # CONFIG.startingLives) =>
          /\ breakout'.lost
          /\ breakout'.ball = breakout.ball
          /\ breakout'.score = breakout.score
          /\ breakout'.bricks = breakout.bricks
          /\ breakout'.paddle = breakout.paddle

\* C34: Breakout lives stay within 0..startingLives; every fall of the ball
\* below the bottom edge takes exactly one life and puts the ball at rest on
\* the paddle; lost holds exactly when lives is 0 and running exactly when it is
\* at least 1; once lost, update and launchBall change nothing, and the game
\* stays lost, until restart.
C34_LivesAndLoss == [](C34_Lives) /\ [][C34_Step]_vars

\* The last life has been lost in a game in which bricks were broken.
C34_Witness ==
    /\ breakout.lost
    /\ breakout.lives = 0
    /\ breakout.score > 0
    /\ AtRest(breakout)

\* ---------------------------------------------------------------- C35
\* The fields of a new game as boot() leaves them.
NewGame(s) ==
    /\ s.score = 0
    /\ s.lives = CONFIG.startingLives
    /\ ~s.won /\ ~s.lost
    /\ s.running /\ ~s.paused
    /\ \A r \in 1..CONFIG.brick.rows : \A c \in 1..CONFIG.brick.cols :
          s.bricks[r][c] = [alive |-> TRUE, hits |-> 1]
    /\ AtRest(s)

\* C35: in every reachable state of Breakout, restart() leads to a new game:
\* score 0, lives = startingLives, not won, not lost, running and not paused,
\* every brick alive with one hit left, and the ball at rest on the paddle.
C35_RestartGivesNewGame == NewGame(restart(breakout))

====
